---- MODULE Spec2Model ----
(***************************************************************************)
(* Model of packages/tao_bench/run_autoscale.py: the core allocator        *)
(* (distribute_cores, list2ranges) and the completion supervisor of        *)
(* run_server (warmup sleep, log-stability polling, forced reclamation),   *)
(* and the aggregation of the instances' results into the summary, with    *)
(* the diagnosis file of packages/common/diagnosis_utils.py.               *)
(***************************************************************************)
EXTENDS Integers, Sequences, FiniteSets, TLC

(* ------------------------------ bounds -------------------------------- *)
\* logical core ids are 0 .. MaxCore-1
MaxCore == 5
\* n_parts ranges over 1 .. MaxParts
MaxParts == 4
\* the values of args.num_servers
FleetSizes == {1, 2}
\* args.poll_interval ranges over 0 .. MaxPollInterval (0: polling disabled)
MaxPollInterval == 2
\* args.postprocessing_timeout_buffer ranges over 0 .. MaxBudget
MaxBudget == 4
\* warmup_time + test_time + timeout_buffer, in seconds
BaseTimeout == 1
\* the sizes a log file takes
LogSizes == {0, 10, 20}

VARIABLES
    \* ---- distribute_cores ----
    core_list,          \* list(os.sched_getaffinity(0))
    is_smt_active,      \* content of /sys/devices/system/cpu/smt/active == "1"
    n_parts,            \* argument of distribute_cores
    portion,            \* cores per partition (physical cores when SMT is on)
    remaining_cores,    \* cores still to hand out as extras
    core_start_idx,     \* start of the next slice
    core_ranges,        \* the range strings appended so far
    dpc,                \* position in distribute_cores
    \* ---- run_server: arguments ----
    num_servers,        \* args.num_servers
    poll_interval,      \* args.poll_interval
    budget,             \* args.postprocessing_timeout_buffer
    \* ---- run_server: supervisor ----
    pc,                 \* position of the control thread in run_server
    phase,              \* how polling ended: "none", "STABLE" or "TIMED_OUT"
    idx,                \* index of "for p in procs" on the fixed-timeout path
    now,                \* time.time(), in seconds since the spawn
    tick,               \* poll checks made so far
    file_states,        \* logpath -> (last_size, stable_count)
    returncode,         \* Popen.returncode is set (the leader has been waited on)
    sigkilled,          \* instances whose group a killpg(.., 9) has reached
    \* ---- the instances and their logs (environment) ----
    leader,             \* the group leader: "running", "exited" or "killed"
    desc,               \* some descendant of the leader is alive in the group
    kill_permitted,     \* the supervisor may signal the instances' processes
    log_exists,         \* os.path.exists(logpath)
    log_size,           \* os.path.getsize(logpath)
    \* ---- run_server: log handles and aggregation ----
    flushed,            \* instances whose log handle was flushed and fsynced
    parsed,             \* instance -> what parser.parse returned for its log
    results,            \* the list of valid server results
    overall,            \* the summary dict
    diag_records,       \* the JSON array in the diagnosis file
    \* ---- find_numa_nodes ----
    sysfs_node,         \* the directory /sys/devices/system/node exists
    node_listing,       \* os.listdir("/sys/devices/system/node")
    cpulist_missing,    \* ids of the node directories without a cpulist file
    numa_nodes,         \* the dict built so far: node_id -> cpulist
    npc,                \* position in find_numa_nodes
    nidx,               \* entries of the listing handled so far
    \* ---- DiagnosisRecorder.get_instance, one process, several threads ----
    cls_instance,       \* DiagnosisRecorder._instance: 0 (None) or an instance
    cls_lock,           \* DiagnosisRecorder._lock: 0 (None) or a Lock object
    lock_owner,         \* Lock object -> the thread holding it, or 0
    tpc,                \* thread -> its position in get_instance
    targ,               \* thread -> its shared_file_path argument ("" for none)
    tlock,              \* thread -> the Lock object its with statement uses
    tenv,               \* thread -> its local env_file_path ("unbound", "" or a path)
    tret,               \* thread -> the instance its call returned, or 0
    env_path,           \* os.environ["DIAGNOSIS_FILE_PATH"] ("" when not set)
    inst_path,          \* instance -> its diagnosis_file_path
    path_files,         \* path -> "absent", "old" (there before) or "[]"
    \* ---- DiagnosisRecorder._append_to_file, several writers, one file ----
    dfile,              \* the diagnosis file: the JSON texts written one after another
    dfile0,             \* the file before the first record_failure
    flock_owner,        \* the writer holding the exclusive flock, or 0
    wpc,                \* writer -> its position in _append_to_file
    wrecords,           \* writer -> its local list records
    wbuf,               \* writer -> the text in its file object's buffer
    dfile_exists,       \* os.path.exists(diagnosis_file_path)
    results_dict,       \* the dict handed to merge_failure_to_results
    \* ---- run_server: the servers list of lines 297-307 ----
    port_number_start,  \* args.port_number_start
    memsize,            \* args.memsize
    bind_cpu,           \* args.bind_cpu
    bind_mem,           \* args.bind_mem
    timestamp,          \* ts of line 294
    servers             \* the list of [cmd, logpath] built so far

coreVars == <<core_list, is_smt_active, n_parts, portion, remaining_cores,
              core_start_idx, core_ranges, dpc>>

argVars == <<num_servers, poll_interval, budget>>

supVars == <<pc, phase, idx, now, tick, file_states, returncode, sigkilled>>

envVars == <<leader, desc, kill_permitted, log_exists, log_size>>

aggVars == <<flushed, parsed, results, overall, diag_records>>

topoVars == <<sysfs_node, node_listing, cpulist_missing, numa_nodes, npc, nidx>>

\* the variables run_server's supervision and aggregation never touch
recVars == <<cls_instance, cls_lock, lock_owner, tpc, targ, tlock, tenv, tret,
             env_path, inst_path, path_files>>

\* the diagnosis file as its writers see it
appVars == <<dfile, dfile0, flock_owner, wpc, wrecords, wbuf, dfile_exists,
             results_dict>>

\* what the server commands are composed from
cmdVars == <<port_number_start, memsize, bind_cpu, bind_mem, timestamp, servers>>

laterVars == <<topoVars, recVars, appVars, cmdVars>>

\* everything but find_numa_nodes
notTopoVars == <<coreVars, argVars, supVars, envVars, aggVars, recVars,
                 appVars, cmdVars>>

\* everything but the recorder singleton
notRecVars == <<coreVars, argVars, supVars, envVars, aggVars, topoVars,
                appVars, cmdVars>>

\* everything but the writers of the diagnosis file
notAppVars == <<coreVars, argVars, supVars, envVars, aggVars, topoVars,
                recVars, cmdVars>>

vars == <<coreVars, argVars, supVars, envVars, aggVars, laterVars>>

(* ----------------------------- helpers -------------------------------- *)
Min(a, b) == IF a < b THEN a ELSE b

Abs(a) == IF a < 0 THEN -a ELSE a

\* Python's L[a:b] for 0 <= a, 0 <= b (indices 0-based, the end clamped)
Slice(L, a, b) ==
    IF a >= Min(b, Len(L)) THEN <<>> ELSE SubSeq(L, a + 1, Min(b, Len(L)))

\* the ascending enumeration of a finite set of integers
RECURSIVE SortedSeq(_)
SortedSeq(S) ==
    IF S = {} THEN <<>>
    ELSE LET m == CHOOSE x \in S : \A y \in S : x <= y
         IN  <<m>> \o SortedSeq(S \ {m})

SeqSet(L) == {L[k] : k \in 1..Len(L)}

(* ----------------------------- list2ranges ---------------------------- *)
\* A range string "a-b,c-d" is the sequence of its sub-ranges <<a,b>>, <<c,d>>;
\* a sub-range written as a bare id "a" would be the one-element <<a>>.
\* l2r walks core_list[1:]: at a gap it closes the open sub-range with prev
\* and opens a new one with i; the last sub-range is closed with core_list[-1].
RECURSIVE l2r(_, _, _, _)
l2r(cl, k, start, acc) ==
    IF k > Len(cl) THEN Append(acc, <<start, cl[Len(cl)]>>)
    ELSE IF Abs(cl[k] - cl[k - 1]) > 1
         THEN l2r(cl, k + 1, cl[k], Append(acc, <<start, cl[k - 1]>>))
         ELSE l2r(cl, k + 1, start, acc)

\* one sub-range from the first id to the last, whatever lies between
list2ranges_Span(cl) == << <<cl[1], cl[Len(cl)]>> >>

\* list2ranges(core_list); core_list[0] raises IndexError on an empty list,
\* which the caller models (see DistributeStep)
list2ranges(cl) == l2r(cl, 2, cl[1], <<>>)

\* the cores a range string denotes ("a-b" is every id from a to b)
RangeCores(r) == UNION {r[k][1] .. r[k][2] : k \in 1..Len(r)}

(* --------------------------- distribute_cores ------------------------- *)
n_cores == Len(core_list)

phy_core_list ==
    IF is_smt_active THEN Slice(core_list, 0, n_cores \div 2) ELSE core_list

smt_core_list ==
    IF is_smt_active THEN Slice(core_list, n_cores \div 2, n_cores) ELSE <<>>

\* a sibling slice that forgets the extra core of the partition
SmtSlice_NoExtra(start, len) == Slice(smt_core_list, start, start + portion)

\* the sibling slice taken for a partition, lines 276-279
SmtSlice(start, len) == Slice(smt_core_list, start, start + len)

\* extra = 1 if remaining_cores > 0 else 0
Extra == IF remaining_cores > 0 THEN 1 ELSE 0

\* lines 257-269: portion and remaining_cores
DistributeSetup ==
    /\ dpc = "start"
    /\ portion' = IF is_smt_active THEN (n_cores \div n_parts) \div 2
                                   ELSE n_cores \div n_parts
    /\ remaining_cores' =
           IF is_smt_active THEN n_cores - ((n_cores \div n_parts) \div 2) * 2 * n_parts
                            ELSE n_cores - (n_cores \div n_parts) * n_parts
    /\ core_start_idx' = 0
    /\ dpc' = "loop"
    /\ UNCHANGED <<core_list, is_smt_active, n_parts, core_ranges>>
    /\ UNCHANGED <<argVars, supVars, envVars>>
    /\ UNCHANGED laterVars
    /\ UNCHANGED aggVars

\* one iteration of "for i in range(n_parts)", lines 270-282
DistributeStep ==
    /\ dpc = "loop"
    /\ Len(core_ranges) < n_parts
    /\ LET extra == Extra
           len == portion + extra
           cores_to_alloc ==
               Slice(phy_core_list, core_start_idx, core_start_idx + len)
               \o (IF is_smt_active THEN SmtSlice(core_start_idx, len) ELSE <<>>)
       IN  /\ remaining_cores' =
                  remaining_cores - extra - (IF is_smt_active THEN extra ELSE 0)
           /\ core_start_idx' = core_start_idx + len
           /\ IF cores_to_alloc = <<>>
              THEN \* list2ranges([]) : core_list[0] raises IndexError
                   /\ dpc' = "IndexError"
                   /\ UNCHANGED core_ranges
              ELSE /\ core_ranges' = Append(core_ranges, list2ranges(cores_to_alloc))
                   /\ UNCHANGED dpc
    /\ UNCHANGED <<core_list, is_smt_active, n_parts, portion>>
    /\ UNCHANGED <<argVars, supVars, envVars>>
    /\ UNCHANGED laterVars
    /\ UNCHANGED aggVars

\* return core_ranges, line 283
DistributeReturn ==
    /\ dpc = "loop"
    /\ Len(core_ranges) = n_parts
    /\ dpc' = "done"
    /\ UNCHANGED <<core_list, is_smt_active, n_parts, portion, remaining_cores,
                   core_start_idx, core_ranges>>
    /\ UNCHANGED <<argVars, supVars, envVars>>
    /\ UNCHANGED laterVars
    /\ UNCHANGED aggVars

\* NUMA_NODES once the module is imported, on a machine with one node
TopologyIdle ==
    /\ sysfs_node = TRUE
    /\ node_listing = <<>>
    /\ cpulist_missing = {}
    /\ numa_nodes = <<>>
    /\ npc = "done"
    /\ nidx = 0

\* the threads of one process, and the Lock objects and instances they make
Threads == {1, 2}

\* the paths a diagnosis file may have: the shared_file_path argument, the
\* value DIAGNOSIS_FILE_PATH was given by a parent, the generated name
Paths == {"P", "E", "G"}

\* no call of get_instance is under way: run_server's own recorder exists
RecorderIdle ==
    /\ cls_instance = 1
    /\ cls_lock = 1
    /\ lock_owner = [l \in Threads |-> 0]
    /\ tpc = [t \in Threads |-> "idle"]
    /\ targ = [t \in Threads |-> ""]
    /\ tlock = [t \in Threads |-> 0]
    /\ tenv = [t \in Threads |-> "unbound"]
    /\ tret = [t \in Threads |-> 0]
    /\ env_path = "G"
    /\ inst_path = [i \in Threads |-> IF i = 1 THEN "G" ELSE ""]
    /\ path_files = [q \in Paths |-> IF q = "G" THEN "[]" ELSE "absent"]

\* the state of everything outside run_server
\* the processes that may write the diagnosis file
Writers == {1, 2}

\* a results dict before merge_failure_to_results: no "failures" key, no
\* "failure_read_error" key, and the keys the caller has put ("other")
UnmergedDict ==
    [has_failures |-> FALSE, failures |-> <<>>, failure_read_error |-> FALSE,
     other |-> 7]

\* no record_failure is under way
AppendIdle ==
    /\ dfile = <<>>
    /\ dfile0 = <<>>
    /\ flock_owner = 0
    /\ wpc = [w \in Writers |-> "idle"]
    /\ wrecords = [w \in Writers |-> <<>>]
    /\ wbuf = [w \in Writers |-> <<>>]
    /\ dfile_exists = TRUE
    /\ results_dict = UnmergedDict

\* run_server with the parser's defaults (lines 585-690), before line 297
CommandIdle ==
    /\ port_number_start = 11211
    /\ memsize = 64
    /\ bind_cpu = 1
    /\ bind_mem = 1
    /\ timestamp = 0
    /\ servers = <<>>

LaterIdle == TopologyIdle /\ RecorderIdle /\ AppendIdle /\ CommandIdle

\* the summary dict before line 465 builds it
NoSummary ==
    [spawned_instances |-> 0, successful_instances |-> 0, fast_qps |-> 0,
     slow_qps |-> 0, total_qps |-> 0, num_data_points |-> 0,
     hit_ratio |-> <<0, 1>>, failures |-> <<>>, merged |-> FALSE]

\* run_server before the supervision block has ended: no handle flushed,
\* nothing parsed, no summary; the diagnosis file holds "[]" (line 93 of
\* diagnosis_utils.py)
AggregationIdle ==
    /\ flushed = {}
    /\ parsed = <<>>
    /\ results = <<>>
    /\ overall = NoSummary
    /\ diag_records = <<>>

\* run_server before any instance exists: no instance, nothing polled
SupervisorIdle ==
    /\ AggregationIdle
    /\ num_servers = 0
    /\ poll_interval = 0
    /\ budget = 0
    /\ pc = "distribute"
    /\ phase = "none"
    /\ idx = 0
    /\ now = 0
    /\ tick = 0
    /\ file_states = <<>>
    /\ returncode = <<>>
    /\ sigkilled = {}
    /\ leader = <<>>
    /\ desc = <<>>
    /\ kill_permitted = TRUE
    /\ log_exists = <<>>
    /\ log_size = <<>>

InitCores ==
    /\ LaterIdle
    /\ SupervisorIdle
    /\ core_list \in {SortedSeq(S) : S \in (SUBSET (0..(MaxCore - 1))) \ {{}}}
    /\ is_smt_active \in BOOLEAN
    /\ n_parts \in 1..MaxParts
    /\ portion = 0
    /\ remaining_cores = 0
    /\ core_start_idx = 0
    /\ core_ranges = <<>>
    /\ dpc = "start"

NextCores == DistributeSetup \/ DistributeStep \/ DistributeReturn

SpecCores == InitCores /\ [][NextCores]_vars

(* ------------------------ claims on distribute_cores ------------------ *)
\* C1: for every n_parts >= 1 and every affinity mask, SMT on or off,
\* distribute_cores returns (it does not raise) exactly n_parts ranges that
\* are pairwise disjoint and whose union is the affinity mask.
C1_PartitionOfMask ==
    /\ dpc # "IndexError"
    /\ dpc = "done" =>
          /\ Len(core_ranges) = n_parts
          /\ \A a, b \in 1..Len(core_ranges) :
                 a # b => RangeCores(core_ranges[a]) \cap RangeCores(core_ranges[b]) = {}
          /\ UNION {RangeCores(core_ranges[a]) : a \in 1..Len(core_ranges)}
                 = SeqSet(core_list)

\* C2: with SMT active, the k-th core of the physical half and the k-th core
\* of the sibling half are in the same partitions among those built so far,
\* and once distribute_cores has returned both are in one partition.
C2_SiblingsCoAssigned ==
    is_smt_active =>
        \A k \in 1..Len(phy_core_list) :
            /\ \A j \in 1..Len(core_ranges) :
                   (phy_core_list[k] \in RangeCores(core_ranges[j]))
                       <=> (smt_core_list[k] \in RangeCores(core_ranges[j]))
            /\ dpc = "done" =>
                   \E j \in 1..Len(core_ranges) :
                       /\ phy_core_list[k] \in RangeCores(core_ranges[j])
                       /\ smt_core_list[k] \in RangeCores(core_ranges[j])

\* a returned SMT partition of four cores into two parts, the first part
\* holding physical core 0 and its sibling
C2_Witness ==
    /\ dpc = "done"
    /\ is_smt_active
    /\ n_parts = 2
    /\ Len(core_list) = 4
    /\ RangeCores(core_ranges[1]) = {phy_core_list[1], smt_core_list[1]}

(* ======================= run_server: the supervisor =================== *)
Instances == 0 .. (num_servers - 1)

\* a threshold of two checks
StableThreshold_Two == 1 + 1

\* stable_threshold, line 359
StableThreshold == 3

\* the timeout of p.communicate(timeout=1), line 414
Grace == 1

\* coreVars while run_server supervises: distribute_cores has returned
CoresDone ==
    /\ core_list = <<>>
    /\ is_smt_active = FALSE
    /\ n_parts = 0
    /\ portion = 0
    /\ remaining_cores = 0
    /\ core_start_idx = 0
    /\ core_ranges = <<>>
    /\ dpc = "done"

\* the state right after the spawn loop, lines 326-336: every leader runs in
\* its own new session, every log has just been opened with "w"
Spawned ==
    /\ LaterIdle
    /\ AggregationIdle
    /\ pc = "spawned"
    /\ phase = "none"
    /\ idx = 0
    /\ now = 0
    /\ tick = 0
    /\ file_states = [i \in Instances |-> [size |-> 0, count |-> 0]]
    /\ returncode = [i \in Instances |-> FALSE]
    /\ sigkilled = {}
    /\ leader = [i \in Instances |-> "running"]
    /\ desc = [i \in Instances |-> TRUE]
    /\ kill_permitted \in BOOLEAN
    /\ log_exists = [i \in Instances |-> TRUE]
    /\ log_size = [i \in Instances |-> 0]

\* the supervisor has left run_server's supervision block, or run_server
Returned == pc \in {"REAPED", "PermissionError", "OSError"}

(* ------------------------- the instances ------------------------------ *)
\* (the instances are followed until the supervisor has returned)
\* the group leader terminates by itself
LeaderExit(i) ==
    /\ ~Returned
    /\ leader[i] = "running"
    /\ leader' = [leader EXCEPT ![i] = "exited"]
    /\ UNCHANGED <<coreVars, argVars, supVars, desc, kill_permitted, log_exists, log_size>>
    /\ UNCHANGED laterVars
    /\ UNCHANGED aggVars

\* the last descendant of the leader terminates by itself
DescExit(i) ==
    /\ ~Returned
    /\ desc[i]
    /\ desc' = [desc EXCEPT ![i] = FALSE]
    /\ UNCHANGED <<coreVars, argVars, supVars, leader, kill_permitted, log_exists, log_size>>
    /\ UNCHANGED laterVars
    /\ UNCHANGED aggVars

\* a live process of instance i appends to its log (stdout/stderr of Popen)
LogWrite(i, s) ==
    /\ ~Returned
    /\ leader[i] = "running" \/ desc[i]
    /\ log_exists[i]
    /\ s > log_size[i]
    /\ log_size' = [log_size EXCEPT ![i] = s]
    /\ UNCHANGED <<coreVars, argVars, supVars, leader, desc, kill_permitted, log_exists>>
    /\ UNCHANGED laterVars
    /\ UNCHANGED aggVars

\* the log file is unlinked: os.path.getsize(logpath) raises from now on
LogRemoved(i) ==
    /\ ~Returned
    /\ log_exists[i]
    /\ log_exists' = [log_exists EXCEPT ![i] = FALSE]
    /\ log_size' = [log_size EXCEPT ![i] = 0]
    /\ UNCHANGED <<coreVars, argVars, supVars, leader, desc, kill_permitted>>
    /\ UNCHANGED laterVars
    /\ UNCHANGED aggVars

(* ------------------- os.killpg(os.getpgid(p.pid), 9) ------------------ *)
\* os.getpgid(p.pid) raises ProcessLookupError once the leader has been waited
\* on (its pid is gone), whatever else lives in the group; otherwise killpg
\* raises PermissionError when signalling is not permitted, or delivers.
KillOutcome(i) ==
    IF returncode[i] THEN "ProcessLookupError"
    ELSE IF ~kill_permitted THEN "PermissionError"
    ELSE "ok"

\* a signal that rewrites the status of a leader that has exited already
Killed_Always(i) == "killed"

\* the leader after SIGKILL has reached its group
Killed(i) == IF leader[i] = "running" THEN "killed" ELSE leader[i]

(* --------------------------- polling path ----------------------------- *)
\* a table that starts from the sizes the logs have when the sleep ends
FreshFileStates_Stat == [i \in Instances |-> [size |-> log_size[i], count |-> 0]]

\* line 358: file_states = {server[2]: (0, 0) for server in servers}
FreshFileStates == [i \in Instances |-> [size |-> 0, count |-> 0]]

\* lines 339-358: sleep(base_timeout), start_time, file_states
WarmupSleep ==
    /\ pc = "spawned"
    /\ poll_interval > 0
    /\ now' = now + BaseTimeout
    /\ file_states' = FreshFileStates
    /\ pc' = "poll"
    /\ UNCHANGED <<phase, idx, tick, returncode, sigkilled>>
    /\ UNCHANGED <<coreVars, argVars, envVars>>
    /\ UNCHANGED laterVars
    /\ UNCHANGED aggVars

\* time.time() - start_time; polling starts when the warmup sleep ends
Elapsed == now - BaseTimeout

\* the condition of the while loop, line 363
PollBudgetLeft_Inclusive == Elapsed <= budget

PollBudgetLeft == Elapsed < budget

\* an else branch that keeps the streak when the size has changed
OnChange_KeepCount(i) ==
    [state |-> [size |-> log_size[i], count |-> file_states[i].count],
     blocks |-> TRUE]

\* lines 383-386: the file grew or is empty, the streak restarts
OnChange(i) == [state |-> [size |-> log_size[i], count |-> 0], blocks |-> TRUE]

\* an except clause that treats the error as growth
OnStatError_Reset(i) == [state |-> [size |-> 0, count |-> 0], blocks |-> TRUE]

\* except (OSError, ValueError): pass, lines 388-390
OnStatError(i) == [state |-> file_states[i], blocks |-> FALSE]

\* a test that takes an empty log that stays empty for a stable one
SizeUnchanged_ZeroToo(current_size, last_size) == current_size = last_size

\* line 376: if current_size == last_size and current_size != 0
SizeUnchanged(current_size, last_size) ==
    current_size = last_size /\ current_size # 0

\* the body of "for server in servers" for one instance, lines 367-390:
\* the new file_states entry, and whether it sets all_stable = False
CheckOne(i) ==
    IF ~log_exists[i] THEN OnStatError(i)
    ELSE LET current_size == log_size[i]
             last_size == file_states[i].size
             stable_count == file_states[i].count + 1
         IN  IF SizeUnchanged(current_size, last_size)
             THEN [state |-> [size |-> current_size, count |-> stable_count],
                   blocks |-> stable_count < StableThreshold]
             ELSE OnChange(i)

\* all_stable after the for loop, line 392
AllStable == \A i \in Instances : ~CheckOne(i).blocks

\* one iteration of the while loop, lines 363-397
PollTick ==
    /\ pc = "poll"
    /\ PollBudgetLeft
    /\ file_states' = [i \in Instances |-> CheckOne(i).state]
    /\ tick' = tick + 1
    /\ IF AllStable
       THEN /\ phase' = "STABLE"
            /\ pc' = "collect"
            /\ UNCHANGED now
       ELSE /\ now' = now + poll_interval
            /\ UNCHANGED <<phase, pc>>
    /\ UNCHANGED <<idx, returncode, sigkilled>>
    /\ UNCHANGED <<coreVars, argVars, envVars>>
    /\ UNCHANGED laterVars
    /\ UNCHANGED aggVars

\* a timeout branch that reports the timeout as a failure
TimeoutRecords_Entry ==
    Append(diag_records, [error_type |-> "poll_timeout", server_index |-> 0])

\* the diagnosis file after lines 398-409: they print and kill, the recorder
\* is not called
TimeoutRecords == diag_records

\* the else clause of the while loop, lines 398-409: p.poll() collects a
\* leader that has exited; only a leader still running has its group killed
PollTimeout ==
    /\ pc = "poll"
    /\ ~PollBudgetLeft
    /\ phase' = "TIMED_OUT"
    /\ LET hit == {i \in Instances : leader[i] = "running" /\ KillOutcome(i) = "ok"}
       IN  /\ returncode' = [i \in Instances |-> returncode[i] \/ leader[i] # "running"]
           /\ leader' = [i \in Instances |-> IF i \in hit THEN "killed" ELSE leader[i]]
           /\ desc' = [i \in Instances |-> desc[i] /\ i \notin hit]
           /\ sigkilled' = sigkilled \cup hit
    /\ pc' = "collect"
    /\ UNCHANGED <<idx, now, tick, file_states>>
    /\ UNCHANGED <<coreVars, argVars, kill_permitted, log_exists, log_size>>
    /\ UNCHANGED laterVars
    /\ diag_records' = TimeoutRecords
    /\ UNCHANGED <<flushed, parsed, results, overall>>

\* lines 412-416: p.communicate(timeout=1) for every process; a leader still
\* running costs the whole timeout and stays uncollected
Collect ==
    /\ pc = "collect"
    /\ returncode' = [i \in Instances |-> returncode[i] \/ leader[i] # "running"]
    /\ now' = now + Grace * Cardinality({i \in Instances : leader[i] = "running"})
    /\ pc' = "flush"
    /\ UNCHANGED <<phase, idx, tick, file_states, sigkilled>>
    /\ UNCHANGED <<coreVars, argVars, envVars>>
    /\ UNCHANGED laterVars
    /\ UNCHANGED aggVars

\* a flush of the handles of the running instances only
FlushedHandles_Running == {i \in Instances : leader[i] = "running"}

\* "for server in servers", line 419: the handles flushed and fsynced
FlushedHandles == Instances

\* lines 419-424: flush and fsync of every log handle
FlushLogs ==
    /\ pc = "flush"
    /\ flushed' = FlushedHandles
    /\ pc' = "final_kill"
    /\ UNCHANGED <<phase, idx, now, tick, file_states, returncode, sigkilled>>
    /\ UNCHANGED <<coreVars, argVars, envVars>>
    /\ UNCHANGED laterVars
    /\ UNCHANGED <<parsed, results, overall, diag_records>>

\* lines 427-431: the final cleanup
FinalKill ==
    /\ pc = "final_kill"
    /\ LET hit == {i \in Instances : KillOutcome(i) = "ok"}
       IN  /\ leader' = [i \in Instances |-> IF i \in hit THEN Killed(i) ELSE leader[i]]
           /\ desc' = [i \in Instances |-> desc[i] /\ i \notin hit]
           /\ sigkilled' = sigkilled \cup hit
    /\ pc' = "REAPED"
    /\ UNCHANGED <<phase, idx, now, tick, file_states, returncode>>
    /\ UNCHANGED <<coreVars, argVars, kill_permitted, log_exists, log_size>>
    /\ UNCHANGED laterVars
    /\ UNCHANGED aggVars

(* ------------------------ fixed-timeout path -------------------------- *)
\* a timeout without the test time and the buffers
FixedTimeout_NoBuffer == BaseTimeout

\* timeout, lines 434-439
FixedTimeout == BaseTimeout + budget

\* line 339, else branch: enter "for p in procs"
FixedStart ==
    /\ pc = "spawned"
    /\ poll_interval = 0
    /\ pc' = "fixed_wait"
    /\ idx' = 0
    /\ UNCHANGED <<phase, now, tick, file_states, returncode, sigkilled>>
    /\ UNCHANGED <<coreVars, argVars, envVars>>
    /\ UNCHANGED laterVars
    /\ UNCHANGED aggVars

\* one iteration of "for p in procs", lines 441-456
FixedWait ==
    /\ pc = "fixed_wait"
    /\ idx < num_servers
    /\ IF leader[idx] # "running"
       THEN \* communicate(timeout) returns; the finally kill finds no pid
            /\ returncode' = [returncode EXCEPT ![idx] = TRUE]
            /\ idx' = idx + 1
            /\ UNCHANGED <<pc, now, leader, desc, sigkilled>>
       ELSE \* TimeoutExpired after the whole timeout, then killpg at line 447
            /\ now' = now + FixedTimeout
            /\ IF KillOutcome(idx) = "ok"
               THEN \* the group dies, communicate() collects the leader, and
                    \* the finally kill finds no pid
                    /\ leader' = [leader EXCEPT ![idx] = "killed"]
                    /\ desc' = [desc EXCEPT ![idx] = FALSE]
                    /\ sigkilled' = sigkilled \cup {idx}
                    /\ returncode' = [returncode EXCEPT ![idx] = TRUE]
                    /\ idx' = idx + 1
                    /\ UNCHANGED pc
               ELSE \* PermissionError is not caught at line 448; the finally
                    \* kill is denied too (caught), and the error leaves run_server
                    /\ pc' = "PermissionError"
                    /\ UNCHANGED <<idx, leader, desc, sigkilled, returncode>>
    /\ UNCHANGED <<phase, tick, file_states>>
    /\ UNCHANGED <<coreVars, argVars, kill_permitted, log_exists, log_size>>
    /\ UNCHANGED laterVars
    /\ UNCHANGED aggVars

\* the for loop is exhausted
FixedDone ==
    /\ pc = "fixed_wait"
    /\ idx = num_servers
    /\ pc' = "REAPED"
    /\ UNCHANGED <<phase, idx, now, tick, file_states, returncode, sigkilled>>
    /\ UNCHANGED <<coreVars, argVars, envVars>>
    /\ UNCHANGED laterVars
    /\ UNCHANGED aggVars

(* --------------------------- specifications --------------------------- *)
\* the supervisor with polling enabled
Polling ==
    \/ WarmupSleep
    \/ PollTick
    \/ PollTimeout
    \/ Collect
    \/ FlushLogs
    \/ FinalKill

\* the supervisor with polling disabled
Fixed ==
    \/ FixedStart
    \/ FixedWait
    \/ FixedDone

Supervisor == Polling \/ Fixed

Environment ==
    \/ \E i \in Instances : LeaderExit(i)
    \/ \E i \in Instances : DescExit(i)
    \/ \E i \in Instances : \E s \in LogSizes : LogWrite(i, s)
    \/ \E i \in Instances : LogRemoved(i)

Init ==
    /\ CoresDone
    /\ num_servers \in FleetSizes
    /\ poll_interval \in 0..MaxPollInterval
    /\ budget \in 0..MaxBudget
    /\ Spawned

Next == Supervisor \/ Environment

Spec == Init /\ [][Next]_vars

\* the control thread is always scheduled: every sleep and every wait it makes
\* is bounded by a timeout
FairSpec == Spec /\ WF_vars(Supervisor)

(* ------------------------ claims on the supervisor -------------------- *)
\* some process of instance i's process group is alive
GroupAlive(i) == leader[i] = "running" \/ desc[i]

\* C3: when the supervisor has returned (REAPED) no process of any instance's
\* group is alive, also when the leader had exited and been waited on before
\* the final kill (signalling permitted).
C3_NoSurvivorAtReaped ==
    (pc = "REAPED" /\ kill_permitted) => \A i \in Instances : ~GroupAlive(i)

\* C4: when the poll budget has expired (TIMED_OUT), SIGKILL has been sent to
\* the process group of every one of the instances (signalling permitted).
C4_TimeoutKillsEveryGroup ==
    (phase = "TIMED_OUT" /\ kill_permitted) => sigkilled = Instances

\* C5: once the fleet is spawned the supervisor eventually reaches REAPED, on
\* every path and whatever the instances and the kill calls do.
C5_EventuallyReaped == <>(pc = "REAPED")

\* C8: STABLE is declared only when every instance has a streak of at least
\* three stable checks.
C8_StableOnlyWhenAllQuiescent ==
    phase = "STABLE" => \A i \in Instances : file_states[i].count >= StableThreshold

\* every instance but i passes this tick's check and reaches the threshold
OthersQuiescent(i) ==
    \A j \in Instances \ {i} :
        /\ log_exists[j]
        /\ log_size[j] = file_states[j].size
        /\ log_size[j] # 0
        /\ file_states[j].count + 1 >= StableThreshold

\* C9: in a poll check, a stat error on the log of an instance whose process
\* has exited does not reset that instance's tracked size and streak, and
\* does not keep the fleet from STABLE when every other instance is quiescent.
C9_ErrorOnExitedIsStable ==
    [][(pc = "poll" /\ tick' = tick + 1) =>
          \A i \in Instances :
              (~log_exists[i] /\ leader[i] # "running") =>
                  /\ file_states'[i] = file_states[i]
                  /\ OthersQuiescent(i) => phase' = "STABLE"]_vars

\* STABLE declared for two instances: one quiescent, the other with a missing
\* log, an exited leader and its streak of one kept
C9_Witness ==
    /\ phase = "STABLE"
    /\ pc = "collect"
    /\ \E i, j \in Instances :
          /\ ~log_exists[i]
          /\ leader[i] = "exited"
          /\ file_states[i].count = 1
          /\ file_states[j].count = StableThreshold

\* C10: in polling mode the polling loop has stopped by the time the elapsed
\* polling time reaches the budget, and the supervisor returns within
\* base_timeout + budget + one grace timeout per instance.
C10_ReturnsWithinBudget ==
    poll_interval > 0 =>
        /\ pc = "collect" => Elapsed <= budget
        /\ pc = "REAPED" => now <= BaseTimeout + budget + num_servers * Grace

\* C10 as amended: the loop starts no check once the budget is reached, so
\* polling ends less than one poll_interval past the budget, and the
\* supervisor returns less than poll_interval + one grace timeout per instance
\* after base_timeout + budget.
C10_ReturnsWithinBudgetPlusInterval ==
    poll_interval > 0 =>
        /\ pc = "collect" => Elapsed < budget + poll_interval
        /\ pc = "REAPED" =>
              now < BaseTimeout + budget + poll_interval + num_servers * Grace

\* a poll that timed out past its budget, and the supervisor has returned
C10_Witness ==
    /\ pc = "REAPED"
    /\ phase = "TIMED_OUT"
    /\ poll_interval > 0
    /\ now - BaseTimeout > budget
    /\ tick > 0

C19_EveryExitCodeCollected ==
    (pc = "REAPED" /\ kill_permitted) => \A i \in Instances : returncode[i]

Unspawned ==
    /\ LaterIdle
    /\ AggregationIdle
    /\ pc = "spawn"
    /\ phase = "none"
    /\ idx = 0
    /\ now = 0
    /\ tick = 0
    /\ file_states = [i \in Instances |-> [size |-> 0, count |-> 0]]
    /\ returncode = [i \in Instances |-> FALSE]
    /\ sigkilled = {}
    /\ leader = [i \in Instances |-> "unspawned"]
    /\ desc = [i \in Instances |-> FALSE]
    /\ kill_permitted \in BOOLEAN
    /\ log_exists = [i \in Instances |-> TRUE]
    /\ log_size = [i \in Instances |-> 0]

\* subprocess.Popen(..., start_new_session=True) returns and the process is
\* appended to procs, lines 330-336
SpawnOne ==
    /\ pc = "spawn"
    /\ idx < num_servers
    /\ leader' = [leader EXCEPT ![idx] = "running"]
    /\ desc' = [desc EXCEPT ![idx] = TRUE]
    /\ idx' = idx + 1
    /\ UNCHANGED <<pc, phase, now, tick, file_states, returncode, sigkilled>>
    /\ UNCHANGED <<coreVars, argVars, kill_permitted, log_exists, log_size>>
    /\ UNCHANGED laterVars
    /\ UNCHANGED aggVars

\* subprocess.Popen raises (taskset or numactl missing, fork refused): the
\* loop has no try, the error leaves run_server with procs as they are
SpawnFails ==
    /\ pc = "spawn"
    /\ idx < num_servers
    /\ pc' = "OSError"
    /\ UNCHANGED <<phase, idx, now, tick, file_states, returncode, sigkilled>>
    /\ UNCHANGED <<coreVars, argVars, envVars>>
    /\ UNCHANGED laterVars
    /\ UNCHANGED aggVars

\* the for loop is exhausted: the fleet is spawned
SpawnDone ==
    /\ pc = "spawn"
    /\ idx = num_servers
    /\ pc' = "spawned"
    /\ idx' = 0
    /\ UNCHANGED <<phase, now, tick, file_states, returncode, sigkilled>>
    /\ UNCHANGED <<coreVars, argVars, envVars>>
    /\ UNCHANGED laterVars
    /\ UNCHANGED aggVars

InitLaunch ==
    /\ CoresDone
    /\ num_servers \in FleetSizes
    /\ poll_interval \in 0..MaxPollInterval
    /\ budget \in 0..MaxBudget
    /\ Unspawned

NextLaunch ==
    \/ SpawnOne
    \/ SpawnFails
    \/ SpawnDone
    \/ \E i \in Instances : LeaderExit(i)
    \/ \E i \in Instances : DescExit(i)
    \/ \E i \in Instances : \E s \in LogSizes : LogWrite(i, s)
    \/ \E i \in Instances : LogRemoved(i)

SpecLaunch == InitLaunch /\ [][NextLaunch]_vars

\* C12: when spawning instance k fails, the instances after k have not been
\* spawned, no process of the instances before k is left running, and the
\* failure has left run_server (signalling permitted).
C12_SpawnFailureTearsDown ==
    (pc = "OSError" /\ kill_permitted) =>
        /\ \A i \in Instances : i >= idx => leader[i] = "unspawned"
        /\ \A i \in Instances : i < idx => ~GroupAlive(i)

(* ================= run_server: aggregation, lines 457-579 ============= *)
\* the values of args.num_servers in the aggregation runs
AggFleetSizes == {1, 2, 3}

\* hit ratios are exact rationals <<numerator, denominator>>, in tenths
RatEq(a, b) == a[1] * b[2] = b[1] * a[2]

\* the sum of f over the set S
RECURSIVE SumOver(_, _)
SumOver(f, S) ==
    IF S = {} THEN 0
    ELSE LET x == CHOOSE y \in S : TRUE
         IN  f[x] + SumOver(f, S \ {x})

\* what parser.parse(log, None, returncode) returns for a non-empty log: a
\* server result with its metrics, a result of another role, or a result
\* without the "role" key (role "absent")
ServerResults ==
    { [role |-> "server", fast_qps |-> 1, slow_qps |-> 10, total_qps |-> 12,
       num_data_points |-> 2, hit_ratio |-> 5],
      [role |-> "server", fast_qps |-> 3, slow_qps |-> 20, total_qps |-> 25,
       num_data_points |-> 4, hit_ratio |-> 7],
      [role |-> "server", fast_qps |-> 5, slow_qps |-> 40, total_qps |-> 47,
       num_data_points |-> 6, hit_ratio |-> 9] }

ParseResults ==
    ServerResults \cup
    { [role |-> "client", fast_qps |-> 100, slow_qps |-> 100, total_qps |-> 100,
       num_data_points |-> 100, hit_ratio |-> 1],
      [role |-> "absent", fast_qps |-> 100, slow_qps |-> 100, total_qps |-> 100,
       num_data_points |-> 100, hit_ratio |-> 1] }

\* the parser has not been called for the instance
NotParsed ==
    [role |-> "unparsed", fast_qps |-> 0, slow_qps |-> 0, total_qps |-> 0,
     num_data_points |-> 0, hit_ratio |-> 0]

\* a diagnosis entry: error_type and metadata (server_index, or the port of
\* instance server_index for an entry a server process wrote)
Entry(error_type, i) == [error_type |-> error_type, server_index |-> i]

\* DiagnosisRecorder._append_to_file under its exclusive lock: the array is
\* read, the entry appended, the file rewritten
AppendToFile(records, entry) == Append(records, entry)

\* lines 457-477: the handles are closed, results and overall are built
CloseLogs ==
    /\ pc = "REAPED"
    /\ pc' = "diagnose"
    /\ idx' = 0
    /\ parsed' = [i \in Instances |-> NotParsed]
    /\ results' = <<>>
    /\ overall' = [NoSummary EXCEPT !.spawned_instances = num_servers]
    /\ UNCHANGED <<phase, now, tick, file_states, returncode, sigkilled>>
    /\ UNCHANGED <<coreVars, argVars, envVars, flushed, diag_records>>
    /\ UNCHANGED laterVars

\* a decision order that looks at the size before the existence of the log
Outcome_SizeFirst(i, res) ==
    IF log_size[i] = 0 THEN "empty_log_file"
    ELSE IF ~log_exists[i] THEN "log_file_missing"
    ELSE IF res.role = "absent" THEN "missing_role_in_result"
    ELSE IF res.role # "server" THEN "incorrect_role"
    ELSE "valid"

\* a decision order without the size check
Outcome_NoSizeCheck(i, res) ==
    IF ~log_exists[i] THEN "log_file_missing"
    ELSE IF res.role = "absent" THEN "missing_role_in_result"
    ELSE IF res.role # "server" THEN "incorrect_role"
    ELSE "valid"

\* the outcome of instance i in the diagnosis loop, decided in the order of
\* lines 485, 500, 535, 547, 561; res is what the parser returns
Outcome(i, res) ==
    IF ~log_exists[i] THEN "log_file_missing"
    ELSE IF log_size[i] = 0 THEN "empty_log_file"
    ELSE IF res.role = "absent" THEN "missing_role_in_result"
    ELSE IF res.role # "server" THEN "incorrect_role"
    ELSE "valid"

\* a failure branch that raises instead of going on
Continue_Raise == "FileNotFoundError"

\* the continue statements of lines 493 and 512
Continue == "diagnose"

\* one iteration of "for i in range(args.num_servers)", lines 480-564
Diagnose ==
    /\ pc = "diagnose"
    /\ idx < num_servers
    /\ \E res \in ParseResults :
          LET o == Outcome(idx, res)
          IN  /\ parsed' = IF o \in {"log_file_missing", "empty_log_file"}
                           THEN parsed
                           ELSE [parsed EXCEPT ![idx] = res]
              /\ results' = IF o = "valid" THEN Append(results, res) ELSE results
              /\ diag_records' = IF o = "valid" THEN diag_records
                                 ELSE AppendToFile(diag_records, Entry(o, idx))
              /\ pc' = IF o \in {"log_file_missing", "empty_log_file"}
                       THEN Continue ELSE "diagnose"
    /\ idx' = idx + 1
    /\ UNCHANGED <<phase, now, tick, file_states, returncode, sigkilled>>
    /\ UNCHANGED <<coreVars, argVars, envVars, flushed, overall>>
    /\ UNCHANGED laterVars

\* a merge that keeps the entries of this process only
MergedFailures_OwnOnly ==
    SelectSeq(diag_records, LAMBDA e : e.error_type # "port_unavailable")

\* merge_failure_to_results: the file exists and holds a JSON array
MergedFailures == diag_records

\* lines 565-567, after the diagnosis loop
Merge ==
    /\ pc = "diagnose"
    /\ idx = num_servers
    /\ overall' = [overall EXCEPT !.failures = MergedFailures, !.merged = TRUE]
    /\ pc' = "fold"
    /\ idx' = 0
    /\ UNCHANGED <<phase, now, tick, file_states, returncode, sigkilled>>
    /\ UNCHANGED <<coreVars, argVars, envVars, flushed, parsed, results, diag_records>>
    /\ UNCHANGED laterVars

\* an average of the old average and the new value
FoldHitRatio_Unweighted(old, k, h) == <<old[1] + h * old[2], old[2] * 2>>

\* (hit_ratio * successful_instances + res["hit_ratio"])
\*     / (successful_instances + 1), lines 574-576
FoldHitRatio(old, k, h) == <<old[1] * k + h * old[2], old[2] * (k + 1)>>

\* an assignment in place of the addition
FoldSum_Overwrite(acc, v) == v

\* overall[field] += res[field], lines 570-573
FoldSum(acc, v) == acc + v

\* one iteration of "for res in results", lines 569-577; idx results are folded
Fold ==
    /\ pc = "fold"
    /\ idx < Len(results)
    /\ LET res == results[idx + 1]
           k == overall.successful_instances
       IN  overall' = [overall EXCEPT
                          !.fast_qps = FoldSum(@, res.fast_qps),
                          !.slow_qps = FoldSum(@, res.slow_qps),
                          !.total_qps = FoldSum(@, res.total_qps),
                          !.num_data_points = FoldSum(@, res.num_data_points),
                          !.hit_ratio = FoldHitRatio(@, k, res.hit_ratio),
                          !.successful_instances = k + 1]
    /\ idx' = idx + 1
    /\ UNCHANGED <<pc, phase, now, tick, file_states, returncode, sigkilled>>
    /\ UNCHANGED <<coreVars, argVars, envVars, flushed, parsed, results, diag_records>>
    /\ UNCHANGED laterVars

\* print(json.dumps(overall)), line 579
Emit ==
    /\ pc = "fold"
    /\ idx = Len(results)
    /\ pc' = "emitted"
    /\ UNCHANGED <<phase, idx, now, tick, file_states, returncode, sigkilled>>
    /\ UNCHANGED <<coreVars, argVars, envVars, aggVars>>
    /\ UNCHANGED laterVars

\* the entries the server processes wrote into the diagnosis file while they
\* started (check_port_available): none, or one
LaunchRecords == {<<>>} \cup {<<Entry("port_unavailable", i)>> : i \in Instances}

\* a fleet at REAPED: every leader has exited and been collected, the logs
\* are missing, empty or written
InitAggregate ==
    /\ LaterIdle
    /\ CoresDone
    /\ num_servers \in AggFleetSizes
    /\ poll_interval = 0
    /\ budget = 0
    /\ pc = "REAPED"
    /\ phase = "none"
    /\ idx = num_servers
    /\ now = 0
    /\ tick = 0
    /\ file_states = [i \in Instances |-> [size |-> 0, count |-> 0]]
    /\ returncode = [i \in Instances |-> TRUE]
    /\ sigkilled = {}
    /\ leader = [i \in Instances |-> "exited"]
    /\ desc = [i \in Instances |-> FALSE]
    /\ kill_permitted = TRUE
    /\ log_exists \in [Instances -> BOOLEAN]
    /\ log_size \in [Instances -> LogSizes]
    /\ \A i \in Instances : ~log_exists[i] => log_size[i] = 0
    /\ flushed = {}
    /\ parsed = <<>>
    /\ results = <<>>
    /\ overall = NoSummary
    /\ diag_records \in LaunchRecords

Aggregate == CloseLogs \/ Diagnose \/ Merge \/ Fold \/ Emit

SpecAggregate == InitAggregate /\ [][Aggregate]_vars

\* the control thread is always scheduled
FairSpecAggregate == SpecAggregate /\ WF_vars(Aggregate)

(* ------------------------ claims on aggregation ----------------------- *)
\* the instances whose log was parsed into a server result
ValidInstances == {i \in Instances : parsed[i].role = "server"}

\* the valid instances' results in ascending index order
ValidResults ==
    LET order == SortedSeq(ValidInstances)
    IN  [j \in 1..Len(order) |-> parsed[order[j]]]

\* the hit ratios of the first k results
HitRatios(k) == [j \in 1..k |-> results[j].hit_ratio]

EmptyLogs == {i \in Instances : log_exists[i] /\ log_size[i] = 0}

\* res[field] of every instance's parse result
FieldOf(field) == [i \in Instances |-> parsed[i][field]]

\* the error types run_server records while it aggregates
AggregationErrors ==
    {"log_file_missing", "empty_log_file", "missing_role_in_result", "incorrect_role"}

\* the entries of a list of diagnosis records that aggregation recorded
OwnEntries(records) == SelectSeq(records, LAMBDA e : e.error_type \in AggregationErrors)

\* C14: an instance whose log has size zero is not parsed and adds nothing to
\* fast_qps, slow_qps, total_qps, num_data_points, hit_ratio or
\* successful_instances, and the emitted summary's failures list holds an
\* empty_log_file entry for it.
C14_EmptyLogExcludedAndReported ==
    pc = "emitted" =>
        LET others == ValidInstances \ EmptyLogs
        IN  \A i \in EmptyLogs :
                /\ parsed[i] = NotParsed
                /\ Entry("empty_log_file", i) \in SeqSet(overall.failures)
                /\ overall.successful_instances = Cardinality(others)
                /\ overall.fast_qps = SumOver(FieldOf("fast_qps"), others)
                /\ overall.slow_qps = SumOver(FieldOf("slow_qps"), others)
                /\ overall.total_qps = SumOver(FieldOf("total_qps"), others)
                /\ overall.num_data_points = SumOver(FieldOf("num_data_points"), others)
                /\ RatEq(overall.hit_ratio,
                         <<SumOver(FieldOf("hit_ratio"), others),
                           IF others = {} THEN 1 ELSE Cardinality(others)>>)

\* a summary of three instances: one with an empty log, two valid
C14_Witness ==
    /\ pc = "emitted"
    /\ num_servers = 3
    /\ Cardinality(EmptyLogs) = 1
    /\ overall.successful_instances = 2
    /\ \E i \in Instances : Entry("empty_log_file", i) \in SeqSet(overall.failures)

\* C15: in the emitted summary fast_qps, slow_qps, total_qps and
\* num_data_points are the sums of the field over exactly the instances whose
\* log is present, non-empty and parsed with role "server";
\* successful_instances is the number of those instances and lies between 0
\* and spawned_instances.
C15_SumsOverValidInstances ==
    pc = "emitted" =>
        LET valid == {i \in Instances :
                         log_exists[i] /\ log_size[i] # 0 /\ parsed[i].role = "server"}
        IN  /\ valid = ValidInstances
            /\ overall.fast_qps = SumOver(FieldOf("fast_qps"), valid)
            /\ overall.slow_qps = SumOver(FieldOf("slow_qps"), valid)
            /\ overall.total_qps = SumOver(FieldOf("total_qps"), valid)
            /\ overall.num_data_points = SumOver(FieldOf("num_data_points"), valid)
            /\ overall.successful_instances = Cardinality(valid)
            /\ overall.successful_instances >= 0
            /\ overall.successful_instances <= overall.spawned_instances
            /\ overall.spawned_instances = num_servers

\* a summary of three instances, two of them valid with fast_qps 1 and 3
C15_Witness ==
    /\ pc = "emitted"
    /\ num_servers = 3
    /\ Cardinality(ValidInstances) = 2
    /\ overall.fast_qps = 4
    /\ overall.slow_qps = 30

\* every instance has been given its outcome
AllDiagnosed ==
    \A i \in Instances :
        \/ i \in ValidInstances
        \/ \E e \in SeqSet(diag_records) :
               e.server_index = i /\ e.error_type \in AggregationErrors

\* C16: whatever logs are missing or empty and whatever results are invalid,
\* all instances failing included, aggregation goes through every instance
\* and emits the summary, with successful_instances = 0 and hit_ratio = 0
\* when no instance is valid and no division by zero.
C16_SummaryAlwaysEmitted ==
    <>(/\ pc = "emitted"
       /\ AllDiagnosed
       /\ overall.hit_ratio[2] # 0
       /\ ValidInstances = {} =>
              /\ overall.successful_instances = 0
              /\ overall.hit_ratio = <<0, 1>>)

\* a summary of three instances that all failed, each in another way
C16_Witness ==
    /\ pc = "emitted"
    /\ num_servers = 3
    /\ overall.successful_instances = 0
    /\ overall.hit_ratio = <<0, 1>>
    /\ {e.error_type : e \in SeqSet(overall.failures)}
           = {"log_file_missing", "empty_log_file", "incorrect_role"}

\* the outcome the claim gives instance i
OutcomeByOrder(i) ==
    IF ~log_exists[i] THEN "log_file_missing"
    ELSE IF log_size[i] = 0 THEN "empty_log_file"
    ELSE IF parsed[i].role = "absent" THEN "missing_role_in_result"
    ELSE IF parsed[i].role # "server" THEN "incorrect_role"
    ELSE "valid"

\* C17: every instance the diagnosis loop has passed has exactly one outcome,
\* decided in the order log_file_missing, empty_log_file,
\* missing_role_in_result, incorrect_role, valid; one failure is recorded for
\* a non-valid instance and none for a valid one, so that
\* successful_instances plus the failures recorded by aggregation equals
\* spawned_instances.
C17_OneOutcomePerInstance ==
    pc \in {"diagnose", "fold", "emitted"} =>
        LET done == IF pc = "diagnose" THEN idx ELSE num_servers
            own == OwnEntries(diag_records)
            entriesOf(i) == {j \in 1..Len(own) : own[j].server_index = i}
        IN  /\ \A i \in Instances :
                   IF i < done
                   THEN /\ (OutcomeByOrder(i) = "valid") <=> (i \in ValidInstances)
                        /\ IF OutcomeByOrder(i) = "valid"
                           THEN entriesOf(i) = {}
                           ELSE /\ Cardinality(entriesOf(i)) = 1
                                /\ \A j \in entriesOf(i) :
                                       own[j].error_type = OutcomeByOrder(i)
                   ELSE entriesOf(i) = {} /\ parsed[i] = NotParsed
            /\ Len(results) + Len(own) = done
            /\ pc = "emitted" =>
                   overall.successful_instances + Len(own) = overall.spawned_instances

\* a summary of three instances: a missing log, a result of another role and
\* a valid result
C17_Witness ==
    /\ pc = "emitted"
    /\ num_servers = 3
    /\ overall.successful_instances = 1
    /\ OwnEntries(diag_records)
           = <<Entry("log_file_missing", 0), Entry("incorrect_role", 1)>>

WarmupWrite(i) ==
    /\ pc = "spawned"
    /\ log_size[i] = 0
    /\ LogWrite(i, 10)

\* instance i's log grows from 10 to 20 between the second and third check
GrowthBeforeTick3(i) ==
    /\ pc = "poll"
    /\ tick = 2
    /\ log_size[i] = 10
    /\ LogWrite(i, 20)

\* three instances, poll_interval = 1, logs of 10 bytes written before the
\* first check and never touched afterwards
InitSteady ==
    /\ CoresDone
    /\ num_servers = 3
    /\ poll_interval = 1
    /\ budget \in 0..MaxBudget
    /\ Spawned

NextSteady ==
    \/ Polling
    \/ \E i \in Instances : LeaderExit(i)
    \/ \E i \in Instances : DescExit(i)
    \/ \E i \in Instances : WarmupWrite(i)

SpecSteady == InitSteady /\ [][NextSteady]_vars

\* poll_interval = 1, logs of 10 bytes that grow to 20 before the third check
InitGrowth ==
    /\ CoresDone
    /\ num_servers \in FleetSizes
    /\ poll_interval = 1
    /\ budget \in 0..(MaxBudget + 2)
    /\ Spawned

NextGrowth ==
    \/ Polling
    \/ \E i \in Instances : LeaderExit(i)
    \/ \E i \in Instances : DescExit(i)
    \/ \E i \in Instances : WarmupWrite(i)
    \/ \E i \in Instances : GrowthBeforeTick3(i)

SpecGrowth == InitGrowth /\ [][NextGrowth]_vars

\* every log exists and has size s
AllLogs(s) == \A i \in Instances : log_exists[i] /\ log_size[i] = s

\* C6: three instances whose log size is 10 at every poll check
\* (poll_interval = 1, no stat error) reach STABLE at check 3, not earlier.
C6_StableAtTick3 ==
    (pc # "spawned" /\ AllLogs(10) /\ budget >= 3) =>
        /\ tick >= 3 => phase = "STABLE"
        /\ phase = "STABLE" => tick = 3

\* C6 as amended: they reach STABLE at check 4, not earlier (the first check
\* compares with the initial last_size 0 and starts the streak at 0).
C6_StableAtTick4 ==
    (pc # "spawned" /\ AllLogs(10)) =>
        /\ (budget >= 4 /\ tick >= 4) => phase = "STABLE"
        /\ phase = "STABLE" => tick = 4

\* STABLE declared at the fourth check of three logs of 10 bytes
C6_Witness ==
    /\ num_servers = 3
    /\ AllLogs(10)
    /\ phase = "STABLE"
    /\ tick = 4
    /\ \A i \in Instances : file_states[i] = [size |-> 10, count |-> 3]

\* C7: observed sizes 10, 10, 20, 20, 20 at checks 1..5 reach STABLE at
\* check 5 and at no earlier check.
C7_StableAtTick5 ==
    (AllLogs(20) /\ budget >= 5) =>
        /\ tick >= 5 => phase = "STABLE"
        /\ phase = "STABLE" => tick = 5

\* C7 as amended: after the checks 10, 10, 20, 20, 20 the streak is 2 and
\* STABLE is not reached; with a sixth check at 20 STABLE is reached at check
\* 6 and at no earlier check.
C7_StableAtTick6 ==
    AllLogs(20) =>
        /\ (budget >= 6 /\ tick >= 6) => phase = "STABLE"
        /\ phase = "STABLE" => tick = 6
        /\ tick = 5 => \A i \in Instances : file_states[i] = [size |-> 20, count |-> 2]

\* STABLE declared at the sixth check after a growth to 20 before the third
C7_Witness ==
    /\ AllLogs(20)
    /\ phase = "STABLE"
    /\ tick = 6
    /\ \A i \in Instances : file_states[i] = [size |-> 20, count |-> 3]

(* ===================== find_numa_nodes, lines 33-43 =================== *)
\* the ids of the node directories a machine may have
NodeIds == {0, 1, 10}

\* a directory entry "node<id>", or an entry of another name (has_cpu, online)
NodeEntry(id) == [node |-> TRUE, id |-> id]

OtherEntry == [node |-> FALSE, id |-> -1]

\* node_dir[4]: the fifth character of "node<id>", the first digit of the id
NodeKey(id) == IF id < 10 THEN id ELSE id \div 10

\* the content of node<id>/cpulist, as the list of its ranges
CpuListOf(id) ==
    IF id = 0 THEN << <<0, 1>> >>
    ELSE IF id = 1 THEN << <<2, 3>> >>
    ELSE << <<4, 5>> >>

\* the orders os.listdir may return the entries of S in
ListingsOf(S) ==
    {q \in [1..Cardinality(S) -> S] : \A a, b \in 1..Cardinality(S) : a # b => q[a] # q[b]}

\* everything but find_numa_nodes, while the module is being imported
ImportTime ==
    /\ SupervisorIdle
    /\ core_list = <<>>
    /\ is_smt_active = FALSE
    /\ n_parts = 0
    /\ portion = 0
    /\ remaining_cores = 0
    /\ core_start_idx = 0
    /\ core_ranges = <<>>
    /\ dpc = "start"

\* os.listdir("/sys/devices/system/node"), line 35
NumaListdir ==
    /\ npc = "start"
    /\ npc' = IF sysfs_node THEN "loop" ELSE "FileNotFoundError"
    /\ UNCHANGED <<sysfs_node, node_listing, cpulist_missing, numa_nodes, nidx>>
    /\ UNCHANGED notTopoVars

\* one iteration of "for node_dir in os.listdir(..)", lines 35-39
NumaEntry ==
    /\ npc = "loop"
    /\ nidx < Len(node_listing)
    /\ LET node_dir == node_listing[nidx + 1]
       IN  IF ~node_dir.node
           THEN UNCHANGED <<numa_nodes, npc>>
           ELSE IF node_dir.id \in cpulist_missing
           THEN \* open(.../cpulist) raises
                /\ npc' = "FileNotFoundError"
                /\ UNCHANGED numa_nodes
           ELSE /\ numa_nodes' = (NodeKey(node_dir.id) :> CpuListOf(node_dir.id)) @@ numa_nodes
                /\ UNCHANGED npc
    /\ nidx' = nidx + 1
    /\ UNCHANGED <<sysfs_node, node_listing, cpulist_missing>>
    /\ UNCHANGED notTopoVars

\* return numa_nodes, line 40
NumaReturn ==
    /\ npc = "loop"
    /\ nidx = Len(node_listing)
    /\ npc' = "done"
    /\ UNCHANGED <<sysfs_node, node_listing, cpulist_missing, numa_nodes, nidx>>
    /\ UNCHANGED notTopoVars

InitNuma ==
    /\ ImportTime
    /\ RecorderIdle
    /\ AppendIdle
    /\ CommandIdle
    /\ sysfs_node \in BOOLEAN
    /\ \E S \in SUBSET ({NodeEntry(id) : id \in NodeIds} \cup {OtherEntry}) :
          /\ node_listing \in ListingsOf(S)
          /\ cpulist_missing \in SUBSET {e.id : e \in {x \in S : x.node}}
          /\ ~sysfs_node => S = {}
    /\ numa_nodes = <<>>
    /\ npc = "start"
    /\ nidx = 0

NextNuma == NumaListdir \/ NumaEntry \/ NumaReturn

SpecNuma == InitNuma /\ [][NextNuma]_vars

\* the per-node topology data is not all there
TopologyUnavailable ==
    \/ ~sysfs_node
    \/ \E k \in 1..Len(node_listing) :
           node_listing[k].node /\ node_listing[k].id \in cpulist_missing

\* C21: when the node directory or a node's cpulist is absent,
\* find_numa_nodes does not raise and returns one node (the synthetic node for
\* the whole affinity mask).
C21_UnavailableTopologyFallsBack ==
    /\ npc # "FileNotFoundError"
    /\ (npc = "done" /\ TopologyUnavailable) => Cardinality(DOMAIN numa_nodes) = 1

(* ========== DiagnosisRecorder.get_instance, lines 97-158, threads ====== *)
\* "if cls._instance is None", line 128
GetCheck(t) ==
    /\ tpc[t] = "check"
    /\ tpc' = [tpc EXCEPT ![t] = IF cls_instance = 0 THEN "lock_check" ELSE "return"]
    /\ UNCHANGED <<cls_instance, cls_lock, lock_owner, targ, tlock, tenv, tret,
                   env_path, inst_path, path_files>>
    /\ UNCHANGED notRecVars

\* "if cls._lock is None", line 132
GetLockCheck(t) ==
    /\ tpc[t] = "lock_check"
    /\ tpc' = [tpc EXCEPT ![t] = IF cls_lock = 0 THEN "lock_create" ELSE "with"]
    /\ UNCHANGED <<cls_instance, cls_lock, lock_owner, targ, tlock, tenv, tret,
                   env_path, inst_path, path_files>>
    /\ UNCHANGED notRecVars

\* "cls._lock = threading.Lock()", line 133: a new Lock object, not held
GetLockCreate(t) ==
    /\ tpc[t] = "lock_create"
    /\ cls_lock' = t
    /\ tpc' = [tpc EXCEPT ![t] = "with"]
    /\ UNCHANGED <<cls_instance, lock_owner, targ, tlock, tenv, tret,
                   env_path, inst_path, path_files>>
    /\ UNCHANGED notRecVars

\* "with cls._lock", line 135: the attribute is read
GetWith(t) ==
    /\ tpc[t] = "with"
    /\ tlock' = [tlock EXCEPT ![t] = cls_lock]
    /\ tpc' = [tpc EXCEPT ![t] = "acquire"]
    /\ UNCHANGED <<cls_instance, cls_lock, lock_owner, targ, tenv, tret,
                   env_path, inst_path, path_files>>
    /\ UNCHANGED notRecVars

\* the Lock object read at line 135 is acquired
GetAcquire(t) ==
    /\ tpc[t] = "acquire"
    /\ lock_owner[tlock[t]] = 0
    /\ lock_owner' = [lock_owner EXCEPT ![tlock[t]] = t]
    /\ tpc' = [tpc EXCEPT ![t] = "check2"]
    /\ UNCHANGED <<cls_instance, cls_lock, targ, tlock, tenv, tret,
                   env_path, inst_path, path_files>>
    /\ UNCHANGED notRecVars

\* "if cls._instance is None" under the lock, line 137
GetCheck2(t) ==
    /\ tpc[t] = "check2"
    /\ tpc' = [tpc EXCEPT ![t] = IF cls_instance = 0 THEN "construct" ELSE "release"]
    /\ UNCHANGED <<cls_instance, cls_lock, lock_owner, targ, tlock, tenv, tret,
                   env_path, inst_path, path_files>>
    /\ UNCHANGED notRecVars

\* a choice that does not look at DIAGNOSIS_FILE_PATH
ChosenPath_IgnoreEnv(t) == IF targ[t] # "" THEN targ[t] ELSE "G"

\* the path __init__ takes, lines 139-149 and 63-95: the argument, else the
\* environment variable, else the generated name
ChosenPath(t) ==
    IF targ[t] # "" THEN targ[t]
    ELSE IF env_path # "" THEN env_path
    ELSE "G"

\* the file after __init__: a shared path is created only when absent (lines
\* 66-71), the generated name is opened with "w" (line 94)
FileAfterInit(t) ==
    IF ChosenPath(t) = "G" THEN "[]"
    ELSE IF path_files[ChosenPath(t)] = "absent" THEN "[]"
    ELSE path_files[ChosenPath(t)]

\* lines 139-149: env_file_path is assigned only when no shared_file_path
\* was passed; the instance is made and stored
GetConstruct(t) ==
    /\ tpc[t] = "construct"
    /\ tenv' = [tenv EXCEPT ![t] = IF targ[t] = "" THEN env_path ELSE "unbound"]
    /\ cls_instance' = t
    /\ inst_path' = [inst_path EXCEPT ![t] = ChosenPath(t)]
    /\ path_files' = [path_files EXCEPT ![ChosenPath(t)] = FileAfterInit(t)]
    /\ tpc' = [tpc EXCEPT ![t] = "setenv"]
    /\ UNCHANGED <<cls_lock, lock_owner, targ, tlock, tret, env_path>>
    /\ UNCHANGED notRecVars

\* lines 152-156: "if not env_file_path" reads the local; unbound, it raises
\* UnboundLocalError and the with statement releases the lock
GetSetEnv(t) ==
    /\ tpc[t] = "setenv"
    /\ IF tenv[t] = "unbound"
       THEN /\ tpc' = [tpc EXCEPT ![t] = "UnboundLocalError"]
            /\ lock_owner' = [lock_owner EXCEPT ![tlock[t]] = 0]
            /\ UNCHANGED env_path
       ELSE /\ tpc' = [tpc EXCEPT ![t] = "release"]
            /\ env_path' = IF tenv[t] = "" THEN inst_path[cls_instance] ELSE env_path
            /\ UNCHANGED lock_owner
    /\ UNCHANGED <<cls_instance, cls_lock, targ, tlock, tenv, tret, inst_path, path_files>>
    /\ UNCHANGED notRecVars

\* the end of the with block
GetRelease(t) ==
    /\ tpc[t] = "release"
    /\ lock_owner' = [lock_owner EXCEPT ![tlock[t]] = 0]
    /\ tpc' = [tpc EXCEPT ![t] = "return"]
    /\ UNCHANGED <<cls_instance, cls_lock, targ, tlock, tenv, tret,
                   env_path, inst_path, path_files>>
    /\ UNCHANGED notRecVars

\* "return cls._instance", line 158
GetReturn(t) ==
    /\ tpc[t] = "return"
    /\ tret' = [tret EXCEPT ![t] = cls_instance]
    /\ tpc' = [tpc EXCEPT ![t] = "done"]
    /\ UNCHANGED <<cls_instance, cls_lock, lock_owner, targ, tlock, tenv,
                   env_path, inst_path, path_files>>
    /\ UNCHANGED notRecVars

\* a thread that has returned calls get_instance again, with any argument
GetAgain(t) ==
    /\ tpc[t] = "done"
    /\ tret[t] # 0
    /\ \E a \in {"", "P"} : targ' = [targ EXCEPT ![t] = a]
    /\ tpc' = [tpc EXCEPT ![t] = "check"]
    /\ tenv' = [tenv EXCEPT ![t] = "unbound"]
    /\ UNCHANGED <<cls_instance, cls_lock, lock_owner, tlock, tret,
                   env_path, inst_path, path_files>>
    /\ UNCHANGED notRecVars

\* a fresh process: no instance, no lock; the threads are about to call
\* get_instance, each with or without a shared_file_path
InitSingleton ==
    /\ ImportTime
    /\ TopologyIdle
    /\ AppendIdle
    /\ CommandIdle
    /\ cls_instance = 0
    /\ cls_lock = 0
    /\ lock_owner = [l \in Threads |-> 0]
    /\ tpc = [t \in Threads |-> "check"]
    /\ targ \in [Threads -> {"", "P"}]
    /\ tlock = [t \in Threads |-> 0]
    /\ tenv = [t \in Threads |-> "unbound"]
    /\ tret = [t \in Threads |-> 0]
    /\ env_path \in {"", "E"}
    /\ inst_path = [i \in Threads |-> ""]
    /\ path_files \in [Paths -> {"absent", "old"}]
    /\ path_files["G"] = "absent"

NextSingleton ==
    \/ \E t \in Threads : GetCheck(t)
    \/ \E t \in Threads : GetLockCheck(t)
    \/ \E t \in Threads : GetLockCreate(t)
    \/ \E t \in Threads : GetWith(t)
    \/ \E t \in Threads : GetAcquire(t)
    \/ \E t \in Threads : GetCheck2(t)
    \/ \E t \in Threads : GetConstruct(t)
    \/ \E t \in Threads : GetSetEnv(t)
    \/ \E t \in Threads : GetRelease(t)
    \/ \E t \in Threads : GetReturn(t)
    \/ \E t \in Threads : GetAgain(t)

SpecSingleton == InitSingleton /\ [][NextSingleton]_vars

\* C22: the calls of get_instance made in one process all return the same
\* instance, also when the first calls run concurrently in two threads (no
\* call passes a shared_file_path).
C22_OneInstancePerProcess ==
    (\A t \in Threads : targ[t] = "") =>
        \A t, u \in Threads : (tret[t] # 0 /\ tret[u] # 0) => tret[t] = tret[u]

\* C24: a first call of get_instance that passes shared_file_path makes an
\* instance whose diagnosis_file_path is that path (the file created as "[]"
\* when absent, untouched when present) and returns it: the call does not
\* raise.
C24_ExplicitPathIsUsedAndReturned ==
    \A t \in Threads :
        /\ tpc[t] # "UnboundLocalError"
        /\ (tpc[t] = "setenv" /\ targ[t] = "P") =>
               /\ inst_path[t] = "P"
               /\ path_files["P"] \in {"[]", "old"}

(* --- DiagnosisRecorder._append_to_file, lines 199-242, several writers --- *)

\* The file is the sequence of JSON texts that were written to it one after
\* another. Every writer opens it with "a+", so whatever leaves a writer's
\* buffer lands at the end of the file. A text is an array of entries, a
\* single value that is no array, or bytes that are no JSON.
ArrayText(items) == [kind |-> "array", items |-> items]

ObjectText == [kind |-> "object", items |-> <<9>>]

GarbageText == [kind |-> "garbage", items |-> <<>>]

\* the files a record_failure may find: absent or empty, arrays of earlier
\* entries (0 stands for an entry written before), a single object, garbage
InitialFiles ==
    {<<>>, <<ArrayText(<<>>)>>, <<ArrayText(<<0>>)>>, <<ArrayText(<<0, 0>>)>>,
     <<ObjectText>>, <<GarbageText>>}

\* a reading that starts afresh from whatever is no array
RecordsOf_ArraysOnly(f) ==
    IF Len(f) = 1 /\ f[1].kind = "array" THEN f[1].items ELSE <<>>

\* lines 216-229: records before the new entry is appended. json.loads
\* accepts exactly one JSON text; two texts in a row are "Extra data".
RecordsOf(f) ==
    IF Len(f) = 0 THEN <<>>
    ELSE IF Len(f) > 1 \/ f[1].kind = "garbage" THEN <<>>
    ELSE f[1].items

\* the writer may take the flock (line 211)
LockFree(w) == flock_owner = 0

\* line 209: open(..., "a+") creates the file when it is absent
AppOpen(w) ==
    /\ wpc[w] = "idle"
    /\ wpc' = [wpc EXCEPT ![w] = "flock"]
    /\ dfile_exists' = TRUE
    /\ UNCHANGED <<dfile, dfile0, flock_owner, wrecords, wbuf, results_dict>>
    /\ UNCHANGED notAppVars

\* line 211: fcntl.flock(LOCK_EX) blocks until no other open file holds it
AppLock(w) ==
    /\ wpc[w] = "flock"
    /\ LockFree(w)
    /\ flock_owner' = w
    /\ wpc' = [wpc EXCEPT ![w] = "read"]
    /\ UNCHANGED <<dfile, dfile0, wrecords, wbuf, dfile_exists, results_dict>>
    /\ UNCHANGED notAppVars

\* lines 215-232: read, parse, append the entry (the entry of writer w is w)
AppRead(w) ==
    /\ wpc[w] = "read"
    /\ wrecords' = [wrecords EXCEPT ![w] = Append(RecordsOf(dfile), w)]
    /\ wpc' = [wpc EXCEPT ![w] = "rewrite"]
    /\ UNCHANGED <<dfile, dfile0, flock_owner, wbuf, dfile_exists, results_dict>>
    /\ UNCHANGED notAppVars

\* lines 235-238: seek(0) and truncate() empty the file at once; json.dump
\* and write("\n") put the text into the file object's buffer (the texts are
\* far below the buffer size), which nothing flushes before the file closes
AppRewrite(w) ==
    /\ wpc[w] = "rewrite"
    /\ dfile' = <<>>
    /\ wbuf' = [wbuf EXCEPT ![w] = <<ArrayText(wrecords[w])>>]
    /\ wpc' = [wpc EXCEPT ![w] = "unlock"]
    /\ UNCHANGED <<dfile0, flock_owner, wrecords, dfile_exists, results_dict>>
    /\ UNCHANGED notAppVars

\* line 242, in the finally clause: the lock is released inside the with
AppUnlock(w) ==
    /\ wpc[w] = "unlock"
    /\ flock_owner' = IF flock_owner = w THEN 0 ELSE flock_owner
    /\ wpc' = [wpc EXCEPT ![w] = "close"]
    /\ UNCHANGED <<dfile, dfile0, wrecords, wbuf, dfile_exists, results_dict>>
    /\ UNCHANGED notAppVars

\* line 209, leaving the with statement: close() flushes the buffer, and the
\* file being open for appending the text goes to its end
AppClose(w) ==
    /\ wpc[w] = "close"
    /\ dfile' = dfile \o wbuf[w]
    /\ wbuf' = [wbuf EXCEPT ![w] = <<>>]
    /\ wpc' = [wpc EXCEPT ![w] = "done"]
    /\ UNCHANGED <<dfile0, flock_owner, wrecords, dfile_exists, results_dict>>
    /\ UNCHANGED notAppVars

InitAppend ==
    /\ ImportTime
    /\ TopologyIdle
    /\ RecorderIdle
    /\ CommandIdle
    /\ dfile0 \in InitialFiles
    /\ dfile = dfile0
    /\ dfile_exists \in BOOLEAN
    /\ ~dfile_exists => dfile0 = <<>>
    /\ results_dict = UnmergedDict
    /\ flock_owner = 0
    /\ wpc = [w \in Writers |-> "idle"]
    /\ wrecords = [w \in Writers |-> <<>>]
    /\ wbuf = [w \in Writers |-> <<>>]

\* an except clause that leaves no word of the error
MergeError_Silent(d) == [d EXCEPT !.has_failures = TRUE, !.failures = <<>>]

\* lines 325-327: except Exception
MergeError(d) ==
    [d EXCEPT !.has_failures = TRUE, !.failures = <<>>, !.failure_read_error = TRUE]

\* merge_failure_to_results(results_dict), lines 293-327, on the file f:
\* no file (312-314), one JSON text (316-323, a value that is no list is
\* wrapped, and the one-element list is its items here), anything else makes
\* json.load raise
merge_failure_to_results(d, exists, f) ==
    IF ~exists THEN [d EXCEPT !.has_failures = TRUE, !.failures = <<>>]
    ELSE IF Len(f) = 1 /\ f[1].kind \in {"array", "object"}
    THEN [d EXCEPT !.has_failures = TRUE, !.failures = f[1].items]
    ELSE MergeError(d)

\* the runner merges the failures once; the read takes no lock
MergeRead ==
    /\ ~results_dict.has_failures
    /\ results_dict' = merge_failure_to_results(results_dict, dfile_exists, dfile)
    /\ UNCHANGED <<dfile, dfile0, flock_owner, wpc, wrecords, wbuf, dfile_exists>>
    /\ UNCHANGED notAppVars

NextAppend ==
    \/ MergeRead
    \/ \E w \in Writers : AppOpen(w)
    \/ \E w \in Writers : AppLock(w)
    \/ \E w \in Writers : AppRead(w)
    \/ \E w \in Writers : AppRewrite(w)
    \/ \E w \in Writers : AppUnlock(w)
    \/ \E w \in Writers : AppClose(w)

SpecAppend == InitAppend /\ [][NextAppend]_vars

\* C23: when the file held an array, then once no record_failure is under
\* way the file is one array that starts with the earlier entries, unchanged
\* and in order, followed by one entry for each call that has returned,
\* whatever the interleaving of the writers.
C23_AppendKeepsEveryEntry ==
    ((\A w \in Writers : wpc[w] \in {"idle", "done"})
        /\ Len(dfile0) = 1 /\ dfile0[1].kind = "array") =>
        LET before == dfile0[1].items
            finished == {w \in Writers : wpc[w] = "done"}
        IN  /\ Len(dfile) = 1
            /\ dfile[1].kind = "array"
            /\ Len(dfile[1].items) = Len(before) + Cardinality(finished)
            /\ SubSeq(dfile[1].items, 1, Len(before)) = before
            /\ \A w \in finished :
                   \E k \in (Len(before) + 1)..Len(dfile[1].items) :
                       dfile[1].items[k] = w

(* ------ the servers list and compose_server_cmd, lines 77-116, 290-307 ------ *)

\* everything but the inputs of the commands
notCmdVars == <<coreVars, argVars, supVars, envVars, aggVars, topoVars,
                recVars, appVars>>

\* a test on the span of the string and the span of the node only
check_nodes_of_span(cpu_ranges, nodes) ==
    {node_id \in DOMAIN nodes :
        ~(\/ cpu_ranges[1][1] > nodes[node_id][Len(nodes[node_id])][2]
          \/ cpu_ranges[Len(cpu_ranges)][2] < nodes[node_id][1][1])}

\* check_nodes_of_cpu_range, lines 46-71: the nodes one of whose ranges
\* overlaps one of the ranges of the string (lines 60-63), as a set
check_nodes_of_cpu_range(cpu_ranges, nodes) ==
    {node_id \in DOMAIN nodes :
        \E a \in 1..Len(cpu_ranges) : \E b \in 1..Len(nodes[node_id]) :
            ~(\/ cpu_ranges[a][1] > nodes[node_id][b][2]
              \/ cpu_ranges[a][2] < nodes[node_id][b][1])}

\* lines 96-101: an option whose value is 0 is left out of the command; a
\* kept option is the one-element list of its value
OptionOf(argval) == IF argval = 0 THEN <<>> ELSE <<argval>>

\* the same for the float mem_per_inst, kept as the fraction <<num, den>>
FloatOptionOf(q) == IF q[1] = 0 THEN <<>> ELSE <<q>>

\* line 105: the bind option is added when its value is truthy
BindAdded(v) == v # 0

\* compose_server_cmd(args, cpu_core_range, memsize, port_number); the
\* options of SERVER_CMD_OPTIONS and --real are the same for every instance
\* and left out
compose_server_cmd(cpu_core_range, mem, port_number) ==
    LET wrapped == Cardinality(DOMAIN numa_nodes) > 1 /\ (bind_cpu > 0 \/ bind_mem > 0)
        nodelist == check_nodes_of_cpu_range(cpu_core_range, numa_nodes)
    IN  [numactl     |-> wrapped,
         cpunodebind |-> IF wrapped /\ BindAdded(bind_cpu) THEN <<nodelist>> ELSE <<>>,
         membind     |-> IF wrapped /\ BindAdded(bind_mem) THEN <<nodelist>> ELSE <<>>,
         cpu_list    |-> cpu_core_range,
         memsize     |-> FloatOptionOf(mem),
         port_number |-> OptionOf(port_number)]

\* line 293: mem_per_inst = float(args.memsize) / args.num_servers
mem_per_inst == <<memsize, num_servers>>

\* line 303: the port handed to compose_server_cmd for instance i
PortOf_Base(i) == port_number_start

PortOf(i) == port_number_start + i

\* line 298: tao-bench-server-{i + 1}-{ts}.log
LogPathOf(i) == <<i + 1, timestamp>>

\* what distribute_cores returns on four cores for one partition, for two,
\* and for two with SMT on
CoreRangeChoices ==
    { << << <<0, 3>> >> >>,
      << << <<0, 1>> >>, << <<2, 3>> >> >>,
      << << <<0, 0>>, <<2, 2>> >>, << <<1, 1>>, <<3, 3>> >> >> }

\* NUMA_NODES on a machine with one node, with two, and with two whose
\* cores interleave
Topologies ==
    { (0 :> << <<0, 3>> >>),
      (0 :> << <<0, 1>> >>) @@ (1 :> << <<2, 3>> >>),
      (0 :> << <<0, 0>>, <<2, 2>> >>) @@ (1 :> << <<1, 1>>, <<3, 3>> >>) }

\* the values the parser accepts for --bind-cpu and --bind-mem (type=int)
BindValues == {-1, 0, 1}

\* one iteration of the loop of lines 297-307
ComposeOne ==
    /\ pc = "compose"
    /\ Len(servers) < num_servers
    /\ LET i == Len(servers)
       IN  servers' = Append(servers,
               [cmd     |-> compose_server_cmd(core_ranges[i + 1], mem_per_inst, PortOf(i)),
                logpath |-> LogPathOf(i)])
    /\ UNCHANGED <<port_number_start, memsize, bind_cpu, bind_mem, timestamp>>
    /\ UNCHANGED notCmdVars

\* the loop is exhausted; lines 308-325 change nothing that is modelled
ComposeDone ==
    /\ pc = "compose"
    /\ Len(servers) = num_servers
    /\ pc' = "spawn"
    /\ UNCHANGED <<phase, idx, now, tick, file_states, returncode, sigkilled>>
    /\ UNCHANGED <<coreVars, argVars, envVars, aggVars, laterVars>>

InitCompose ==
    /\ sysfs_node = TRUE
    /\ node_listing = <<>>
    /\ cpulist_missing = {}
    /\ npc = "done"
    /\ nidx = 0
    /\ numa_nodes \in Topologies
    /\ RecorderIdle
    /\ AppendIdle
    /\ AggregationIdle
    /\ core_list = <<>>
    /\ is_smt_active = FALSE
    /\ n_parts = 0
    /\ portion = 0
    /\ remaining_cores = 0
    /\ core_start_idx = 0
    /\ core_ranges \in CoreRangeChoices
    /\ dpc = "done"
    /\ num_servers = Len(core_ranges)
    /\ poll_interval = 0
    /\ budget = 0
    /\ pc = "compose"
    /\ phase = "none"
    /\ idx = 0
    /\ now = 0
    /\ tick = 0
    /\ file_states = [i \in Instances |-> [size |-> 0, count |-> 0]]
    /\ returncode = [i \in Instances |-> FALSE]
    /\ sigkilled = {}
    /\ leader = [i \in Instances |-> "unspawned"]
    /\ desc = [i \in Instances |-> FALSE]
    /\ kill_permitted = TRUE
    /\ log_exists = [i \in Instances |-> TRUE]
    /\ log_size = [i \in Instances |-> 0]
    /\ port_number_start \in {0, 11211}
    /\ memsize \in {1, 64}
    /\ bind_cpu \in BindValues
    /\ bind_mem \in BindValues
    /\ timestamp \in {0, 1}
    /\ servers = <<>>

NextCompose ==
    \/ ComposeOne
    \/ ComposeDone
    \/ SpawnOne
    \/ SpawnFails
    \/ SpawnDone

SpecCompose == InitCompose /\ [][NextCompose]_vars

\* C25 as stated: instance i is launched with port base_port + i and memory
\* total_memory / n, writes to log <i+1>-<timestamp>, leads its own process
\* group; ports and log paths are pairwise distinct.
C25_LaunchedWithOwnPortMemoryLog ==
    /\ \A k \in 1..Len(servers) :
           /\ servers[k].cmd.port_number = <<port_number_start + (k - 1)>>
           /\ Len(servers[k].cmd.memsize) = 1
           /\ RatEq(servers[k].cmd.memsize[1], <<memsize, num_servers>>)
           /\ servers[k].logpath = <<k, timestamp>>
           /\ (k - 1 < idx /\ pc \in {"spawn", "spawned", "OSError"}) =>
                  leader[k - 1] = "running"
    /\ \A k, m \in 1..Len(servers) :
           k # m => /\ servers[k].cmd.port_number # servers[m].cmd.port_number
                    /\ servers[k].logpath # servers[m].logpath

\* C25, amended: the same, the port being on the command only when
\* base_port + i is not 0 (a port of 0 leaves --port-number out and the
\* instance takes its default port).
C25_LaunchedWithOwnNonZeroPort ==
    /\ \A k \in 1..Len(servers) :
           /\ port_number_start + (k - 1) # 0 =>
                  servers[k].cmd.port_number = <<port_number_start + (k - 1)>>
           /\ port_number_start + (k - 1) = 0 => servers[k].cmd.port_number = <<>>
           /\ Len(servers[k].cmd.memsize) = 1
           /\ RatEq(servers[k].cmd.memsize[1], <<memsize, num_servers>>)
           /\ servers[k].logpath = <<k, timestamp>>
           /\ (k - 1 < idx /\ pc \in {"spawn", "spawned", "OSError"}) =>
                  leader[k - 1] = "running"
    /\ \A k, m \in 1..Len(servers) :
           k # m => /\ servers[k].cmd.port_number # servers[m].cmd.port_number
                    /\ servers[k].logpath # servers[m].logpath

C25_Witness ==
    /\ pc = "spawned"
    /\ num_servers = 2
    /\ Len(servers) = 2
    /\ port_number_start = 11211
    /\ servers[2].cmd.port_number = <<11212>>
    /\ leader[1] = "running"

\* C26: the command has the numactl wrapper iff there is more than one NUMA
\* node and bind_cpu > 0 or bind_mem > 0; a wrapper carries --cpunodebind
\* only if bind_cpu > 0 and --membind only if bind_mem > 0, each with the
\* nodes of check_nodes_of_cpu_range for the instance's core range.
C26_NumaWrapperOnlyWhenRequested ==
    \A k \in 1..Len(servers) :
        LET cmd == servers[k].cmd
            nodes == check_nodes_of_cpu_range(core_ranges[k], numa_nodes)
        IN  /\ cmd.numactl <=> (Cardinality(DOMAIN numa_nodes) > 1
                                   /\ (bind_cpu > 0 \/ bind_mem > 0))
            /\ cmd.cpunodebind # <<>> => (bind_cpu > 0 /\ cmd.cpunodebind = <<nodes>>)
            /\ cmd.membind # <<>> => (bind_mem > 0 /\ cmd.membind = <<nodes>>)

(* ------------------- the phases of the polling path -------------------- *)

\* the phase of the supervisor on the polling path: the warmup sleep of line
\* 347, the while loop of 363-397, STABLE (break, 392-395) or TIMED_OUT (else,
\* 398-409) while lines 412-431 run, REAPED after them
PhaseAt(p, ph) ==
    IF p = "spawned" THEN "WARMUP_SLEEP"
    ELSE IF p = "poll" THEN "STABILITY_POLL"
    ELSE IF p = "REAPED" THEN "REAPED"
    ELSE ph

PhaseRank(name) ==
    IF name = "WARMUP_SLEEP" THEN 0
    ELSE IF name = "STABILITY_POLL" THEN 1
    ELSE IF name \in {"STABLE", "TIMED_OUT"} THEN 2
    ELSE 3

\* C27: on the polling path every step keeps the phase or moves it to the
\* next one of WARMUP_SLEEP, STABILITY_POLL, STABLE or TIMED_OUT, REAPED; the
\* table the poll starts from holds no size seen during the warmup sleep and
\* no check has run by then; nothing is killed while the phase is
\* WARMUP_SLEEP or STABILITY_POLL.
C27_PhasesInOrder ==
    [][poll_interval > 0 =>
          LET before == PhaseAt(pc, phase)
              after == PhaseAt(pc', phase')
          IN  /\ after \in {"WARMUP_SLEEP", "STABILITY_POLL", "STABLE",
                            "TIMED_OUT", "REAPED"}
              /\ \/ after = before
                 \/ PhaseRank(after) = PhaseRank(before) + 1
              /\ before = "WARMUP_SLEEP" =>
                     /\ tick' = 0
                     /\ \A i \in Instances : file_states'[i] = [size |-> 0, count |-> 0]
              /\ after \in {"WARMUP_SLEEP", "STABILITY_POLL"} => sigkilled' = {}
    ]_vars

\* REAPED after a timeout that killed an instance whose log grew while the
\* supervisor slept
C27_Witness ==
    /\ poll_interval > 0
    /\ pc = "REAPED"
    /\ phase = "TIMED_OUT"
    /\ tick > 0
    /\ \E i \in Instances : i \in sigkilled /\ log_size[i] > 0

(* ---------------- scripted runs: a quiescent log that grows ------------- *)
\* instance i writes its first 10 bytes while the supervisor polls
FirstWriteWhilePolling(i) ==
    /\ pc = "poll"
    /\ log_size[i] = 0
    /\ LogWrite(i, 10)

\* instance i's log grows from 10 to 20 after its streak has reached the
\* threshold
GrowthAfterQuiescent(i) ==
    /\ pc = "poll"
    /\ file_states[i].count >= StableThreshold
    /\ log_size[i] = 10
    /\ LogWrite(i, 20)

\* poll_interval = 1 and a budget long enough for a streak of three, a
\* change and another streak of three
InitRelapse ==
    /\ CoresDone
    /\ num_servers \in FleetSizes
    /\ poll_interval = 1
    /\ budget \in 0..(MaxBudget + 5)
    /\ Spawned

NextRelapse ==
    \/ Polling
    \/ \E i \in Instances : LeaderExit(i)
    \/ \E i \in Instances : DescExit(i)
    \/ \E i \in Instances : WarmupWrite(i)
    \/ \E i \in Instances : FirstWriteWhilePolling(i)
    \/ \E i \in Instances : GrowthAfterQuiescent(i)

SpecRelapse == InitRelapse /\ [][NextRelapse]_vars

\* C28: at every poll check, an instance whose streak had reached three and
\* whose log has changed size since is back at a streak of 0 and the check
\* does not end in STABLE; a check after which every streak is at least three
\* ends the polling at once, with no sleep; once STABLE, the phase stays
\* STABLE and nothing has been killed before the final cleanup.
C28_QuiescenceNotLatched ==
    [][/\ (pc = "poll" /\ tick' = tick + 1) =>
             /\ \A i \in Instances :
                    (/\ file_states[i].count >= StableThreshold
                     /\ log_exists[i]
                     /\ log_size[i] # file_states[i].size) =>
                        /\ file_states'[i].count = 0
                        /\ phase' # "STABLE"
                        /\ pc' = "poll"
             /\ (\A i \in Instances : file_states'[i].count >= StableThreshold) =>
                    /\ phase' = "STABLE"
                    /\ pc' = "collect"
                    /\ now' = now
       /\ phase = "STABLE" =>
             /\ phase' = "STABLE"
             /\ pc \in {"collect", "flush", "final_kill"} => sigkilled = {}
    ]_vars

\* STABLE was reached although an instance has lost a streak of three on the
\* way: its log has the later size 20 and the fleet needed more than the
\* four checks of an undisturbed run
C28_Witness ==
    /\ phase = "STABLE"
    /\ pc = "REAPED"
    /\ tick >= 8
    /\ \E i \in Instances : log_size[i] = 20 /\ file_states[i] = [size |-> 20, count |-> 3]

(* --------------------- a log that stays empty ------------------------- *)
\* instance i's log is there and empty; a log is never truncated or made
\* again, so it was there and empty at every check so far
ZeroLog(i) ==
    /\ poll_interval > 0
    /\ i < num_servers
    /\ log_exists[i]
    /\ log_size[i] = 0

\* the scripted run of three instances under a control thread that is always
\* scheduled
FairSpecSteady == SpecSteady /\ WF_vars(Polling)

\* C29: while an instance's log is there and empty its streak is 0 and the
\* fleet is not STABLE; if it stays so for good, supervision reaches
\* TIMED_OUT, however long the other instances have been quiescent.
C29_EmptyLogEndsInTimeout ==
    /\ [](\A i \in Instances :
             ZeroLog(i) => /\ file_states[i].count = 0
                           /\ phase # "STABLE")
    /\ \A i \in 0..2 : ([]ZeroLog(i)) => <>(phase = "TIMED_OUT")

\* timed out on an empty log although the two other instances had been
\* quiescent
C29_Witness ==
    /\ phase = "TIMED_OUT"
    /\ ZeroLog(0)
    /\ \A i \in Instances \ {0} : file_states[i].count >= StableThreshold

(* --------------- from the poll timeout to the summary ------------------ *)
\* run_server from line 339 to line 579 on the polling path: logs written
\* during warmup or never, the supervision block, then aggregation
InitRun ==
    /\ CoresDone
    /\ num_servers \in FleetSizes
    /\ poll_interval = 1
    /\ budget \in 0..MaxBudget
    /\ Spawned

NextRun ==
    \/ Polling
    \/ Aggregate
    \/ \E i \in Instances : LeaderExit(i)
    \/ \E i \in Instances : DescExit(i)
    \/ \E i \in Instances : WarmupWrite(i)

\* the control thread is always scheduled
FairSpecRun == InitRun /\ [][NextRun]_vars /\ WF_vars(Polling \/ Aggregate)

\* C30: the step that declares TIMED_OUT leaves the diagnosis file as it is,
\* no entry of the file is about anything but a launch or an instance's log
\* or result, and after TIMED_OUT the summary is emitted with every instance
\* either valid or diagnosed.
C30_TimeoutIsNoFailure ==
    /\ [][(phase # "TIMED_OUT" /\ phase' = "TIMED_OUT") =>
              diag_records' = diag_records]_vars
    /\ [](\A k \in 1..Len(diag_records) :
              diag_records[k].error_type \in AggregationErrors \cup {"port_unavailable"})
    /\ (phase = "TIMED_OUT") ~>
           (/\ pc = "emitted"
            /\ phase = "TIMED_OUT"
            /\ overall.merged
            /\ overall.spawned_instances = num_servers
            /\ overall.failures = diag_records
            /\ AllDiagnosed)

\* a summary emitted after a timeout: the instance whose log stayed empty is
\* reported, the other one is counted
C30_Witness ==
    /\ pc = "emitted"
    /\ phase = "TIMED_OUT"
    /\ overall.successful_instances = 1
    /\ overall.failures = <<Entry("empty_log_file", 0)>>

(* ------------------ killing what has exited already ------------------- *)
\* C31: when the supervisor runs the final cleanup of the polling path or an
\* iteration of the fixed path's loop, an instance whose leader has exited or been killed
\* already keeps the way it ended and stays collected if it was; the step
\* ends without an error, the polling cleanup still kills every instance it
\* can signal and reaches REAPED, the fixed loop goes on to the next instance.
C31_KillOfExitedIsHarmless ==
    [][/\ (pc = "final_kill" /\ pc' # pc) =>
             /\ pc' = "REAPED"
             /\ \A i \in Instances :
                    /\ leader[i] # "running" =>
                           /\ leader'[i] = leader[i]
                           /\ returncode'[i] = returncode[i]
                    /\ (leader[i] = "running" /\ KillOutcome(i) = "ok") =>
                           (leader'[i] = "killed" /\ ~desc'[i])
       /\ (/\ pc = "fixed_wait"
           /\ idx < num_servers
           /\ leader[idx] # "running"
           /\ <<pc, idx, returncode>>' # <<pc, idx, returncode>>) =>
             /\ pc' = "fixed_wait"
             /\ idx' = idx + 1
             /\ leader' = leader
             /\ returncode'[idx]
             /\ \A i \in Instances : returncode[i] => returncode'[i]
    ]_vars

\* REAPED on the polling path: the final cleanup has signalled the group of
\* a leader that had exited by itself, and killed another instance
C31_Witness ==
    /\ pc = "REAPED"
    /\ poll_interval > 0
    /\ \E i, j \in Instances :
           /\ leader[i] = "exited"
           /\ i \in sigkilled
           /\ leader[j] = "killed"

(* ------------------ claims on check_nodes_of_cpu_range ----------------- *)
\* C32: for every instance's core range, check_nodes_of_cpu_range returns
\* the nodes whose cores meet the cores of the range, all of them and no
\* other, and that set is what the bind options of the command carry.
C32_NodesAreThoseSharingACore ==
    \A k \in 1..Len(servers) :
        LET sharing == {n \in DOMAIN numa_nodes :
                           RangeCores(core_ranges[k]) \cap RangeCores(numa_nodes[n]) # {}}
        IN  /\ check_nodes_of_cpu_range(core_ranges[k], numa_nodes) = sharing
            /\ servers[k].cmd.cpunodebind \in {<<>>, <<sharing>>}
            /\ servers[k].cmd.membind \in {<<>>, <<sharing>>}

\* two instances on interleaved nodes, each bound to the one node its cores
\* are on although every node lies within the span of its range
C32_Witness ==
    /\ Len(servers) = 2
    /\ core_ranges[1] = << <<0, 0>>, <<2, 2>> >>
    /\ servers[1].cmd.cpunodebind = <<{0}>>
    /\ servers[2].cmd.cpunodebind = <<{1}>>

(* ------------------------- claims on list2ranges ----------------------- *)
\* C33 as stated: the string list2ranges returns for an ascending list of
\* distinct ids denotes exactly the ids of the list, its sub-ranges are
\* ascending and maximal, a core without neighbour is written as a bare id,
\* and [4,5,6,7,9] gives "4-7,9".
C33_RoundTripWithBareIds ==
    /\ dpc = "done" => list2ranges(<<4, 5, 6, 7, 9>>) = << <<4, 7>>, <<9>> >>
    /\ (dpc = "done" /\ n_parts = 1 /\ ~is_smt_active) =>
           LET r == core_ranges[1]
               first(k) == r[k][1]
               last(k) == r[k][Len(r[k])]
           IN  /\ UNION {first(k)..last(k) : k \in 1..Len(r)} = SeqSet(core_list)
               /\ \A k \in 1..Len(r) : first(k) <= last(k)
               /\ \A k \in 1..(Len(r) - 1) : first(k + 1) > last(k) + 1
               /\ \A k \in 1..Len(r) : first(k) = last(k) => Len(r[k]) = 1

\* C33, amended: the same round trip and the same order, every sub-range
\* being written with both its ends, one core included, and [4,5,6,7,9]
\* giving "4-7,9-9".
C33_RoundTripWithFullRanges ==
    /\ dpc = "done" => list2ranges(<<4, 5, 6, 7, 9>>) = << <<4, 7>>, <<9, 9>> >>
    /\ (dpc = "done" /\ n_parts = 1 /\ ~is_smt_active) =>
           LET r == core_ranges[1]
           IN  /\ RangeCores(r) = SeqSet(core_list)
               /\ \A k \in 1..Len(r) : Len(r[k]) = 2 /\ r[k][1] <= r[k][2]
               /\ \A k \in 1..(Len(r) - 1) : r[k + 1][1] > r[k][2] + 1

\* the list [0,1,2,4] returned as "0-2,4-4"
C33_Witness ==
    /\ dpc = "done"
    /\ n_parts = 1
    /\ ~is_smt_active
    /\ core_list = <<0, 1, 2, 4>>
    /\ core_ranges = << << <<0, 2>>, <<4, 4>> >> >>

(* ----------------- claims on the sizes of the partitions --------------- *)
\* C34: portion is floor(physical cores / n_parts), and the physical cores of
\* the j-th partition are the next portion + 1 cores of the physical list for
\* the first r partitions (r the remainder of that division) and the next
\* portion cores for the others.
C34_PhysicalSlicesAreEven ==
    dpc \in {"loop", "done"} =>
        LET P == Len(phy_core_list)
            q == P \div n_parts
            r == P % n_parts
            start(j) == (j - 1) * q + Min(j - 1, r)
            size(j) == IF j <= r THEN q + 1 ELSE q
        IN  /\ portion = q
            /\ \A j \in 1..Len(core_ranges) :
                   RangeCores(core_ranges[j]) \cap SeqSet(phy_core_list)
                       = SeqSet(Slice(phy_core_list, start(j), start(j) + size(j)))

(* ------------------- claims on the discovered topology ----------------- *)
\* C35: the map find_numa_nodes returns has one entry per node directory,
\* under the node's own id and holding the node's own core list, so that the
\* core sets of the entries are pairwise disjoint.
C35_OneEntryPerNodeDirectory ==
    npc = "done" =>
        LET ids == {node_listing[k].id : k \in {j \in 1..Len(node_listing) : node_listing[j].node}}
        IN  /\ DOMAIN numa_nodes = ids
            /\ \A id \in ids : numa_nodes[id] = CpuListOf(id)
            /\ \A a, b \in DOMAIN numa_nodes :
                   a # b => RangeCores(numa_nodes[a]) \cap RangeCores(numa_nodes[b]) = {}

(* ------------- what one check does to the table of the poll ----------- *)
\* C36: in a poll tick the new entry of every instance is made from that
\* instance's own entry and own log alone: an unchanged non-empty log adds
\* one to the streak, a changed or empty log stores the size with a streak of
\* 0, and an instance whose check raises keeps its entry, whether its leader
\* runs or not and whatever the other instances' logs did.
C36_CheckTouchesOwnEntryOnly ==
    [][(pc = "poll" /\ tick' = tick + 1) =>
          \A j \in Instances :
              /\ ~log_exists[j] => file_states'[j] = file_states[j]
              /\ (/\ log_exists[j]
                  /\ log_size[j] = file_states[j].size
                  /\ log_size[j] # 0) =>
                     file_states'[j] = [size  |-> file_states[j].size,
                                        count |-> file_states[j].count + 1]
              /\ (/\ log_exists[j]
                  /\ (log_size[j] # file_states[j].size \/ log_size[j] = 0)) =>
                     file_states'[j] = [size |-> log_size[j], count |-> 0]
    ]_vars

\* after four checks instance 0 still has the entry of its second check, its
\* log having been unlinked since while its leader runs, and instance 1 has
\* grown in between
C36_Witness ==
    /\ num_servers = 2
    /\ tick = 4
    /\ ~log_exists[0]
    /\ leader[0] = "running"
    /\ file_states[0] = [size |-> 10, count |-> 1]
    /\ file_states[1] = [size |-> 20, count |-> 0]

(* ------------------ claims on merge_failure_to_results ----------------- *)
\* C37: the step of merge_failure_to_results ends with a "failures" list in
\* the dict and the caller's other keys as they were: the records of the
\* file when it holds one JSON text, [] and no error key when there is no
\* file, [] and the failure_read_error key when the file is empty (truncated
\* by a record_failure under way) or not one JSON text.
C37_MergeNeverRaises ==
    [][results_dict' # results_dict =>
          /\ results_dict'.has_failures
          /\ results_dict'.other = results_dict.other
          /\ ~dfile_exists =>
                 /\ results_dict'.failures = <<>>
                 /\ ~results_dict'.failure_read_error
          /\ (dfile_exists /\ Len(dfile) = 1 /\ dfile[1].kind # "garbage") =>
                 /\ results_dict'.failures = dfile[1].items
                 /\ ~results_dict'.failure_read_error
          /\ (dfile_exists /\ (Len(dfile) # 1 \/ dfile[1].kind = "garbage")) =>
                 /\ results_dict'.failures = <<>>
                 /\ results_dict'.failure_read_error
    ]_vars

\* the merge has met the file while a record_failure had truncated it: the
\* file held [0] before and holds [0, 1, 2] now, and the dict has the error
C37_Witness ==
    /\ results_dict.has_failures
    /\ results_dict.failure_read_error
    /\ results_dict.failures = <<>>
    /\ dfile0 = <<ArrayText(<<0>>)>>
    /\ dfile = <<ArrayText(<<0, 1, 2>>)>>

(* --------------- record_failure on a file that is no array ------------- *)
\* C38: when one record_failure has run alone (its entry is 1), a file that
\* was no JSON holds the array of the new entry only, a file that was a
\* single value that is no array holds that value followed by the new entry,
\* and an empty file holds the array of the new entry.
C38_AppendRepairsTheFile ==
    (wpc[1] = "done" /\ wpc[2] = "idle") =>
        /\ dfile0 = <<GarbageText>> => dfile = <<ArrayText(<<1>>)>>
        /\ dfile0 = <<ObjectText>> =>
               dfile = <<ArrayText(Append(ObjectText.items, 1))>>
        /\ dfile0 = <<>> => dfile = <<ArrayText(<<1>>)>>

\* the single value 9 kept in front of the new entry
C38_Witness ==
    /\ wpc[1] = "done"
    /\ wpc[2] = "idle"
    /\ dfile0 = <<ObjectText>>
    /\ dfile = <<ArrayText(<<9, 1>>)>>

(* --------------- get_instance and DIAGNOSIS_FILE_PATH ------------------ *)
\* C39: when no call passes shared_file_path, a DIAGNOSIS_FILE_PATH that is
\* set is never changed, and once a call that made the instance is past
\* lines 152-156 the variable is set and is the path of the instance, whose
\* file exists: the path the variable had from the start, or the generated
\* name with a new file.
C39_EnvironmentNamesTheInstanceFile ==
    /\ [][env_path # "" => env_path' = env_path]_vars
    /\ []((\A t \in Threads : targ[t] = "") =>
             \A t \in Threads :
                 (tenv[t] # "unbound" /\ tpc[t] \in {"release", "return", "done"}) =>
                     /\ env_path \in {"E", "G"}
                     /\ inst_path[cls_instance] = env_path
                     /\ inst_path[t] = env_path
                     /\ path_files[env_path] # "absent"
                     /\ env_path = "G" => path_files["G"] = "[]")

\* both threads have their instance, made under the generated name, and the
\* variable names its file
C39_Witness ==
    /\ \A t \in Threads : targ[t] = "" /\ tret[t] # 0
    /\ env_path = "G"
    /\ inst_path[cls_instance] = "G"
    /\ path_files["G"] = "[]"

====
